---- MODULE Spec2Model ----
(***************************************************************************)
(* Model of backend/worker.py (class WorkerManager): the registry of live  *)
(* Telegram clients, the per-account supervisor task _run_client, the      *)
(* event handlers it registers, and the operations that spawn or stop      *)
(* supervisors.  Every await of the source is a point where other tasks    *)
(* of the event loop may run, so each action below is the code between two *)
(* awaits.  LogBroadcaster.log is the log sink and carries no state here.  *)
(***************************************************************************)
EXTENDS Integers, Sequences, FiniteSets, TLC

\* ------------------------------------------------------------------------
\* Bounds of the model
\* ------------------------------------------------------------------------
\* number of _run_client tasks ever created in one behaviour
MaxSup == 2
\* longest keyword field of an AutoReplyConfig
MaxKwLen == 3
\* longest keyword field of a SmartSellingConfig
MaxSmartLen == 3
\* longest message text of an inbound event
MaxTextLen == 2
\* most forwarding rules stored for one account
MaxRules == 3

Phones == {"p1", "p2"}
Sups == 1..MaxSup
\* "phone not in self.clients"
NoClient == 0
\* a supervisor slot not yet given to any task
NoPhone == "-"
\* Python's None where a string is expected (a missing or null field)
None == <<"None">>

\* ------------------------------------------------------------------------
\* Strings are sequences of characters; the str methods the code calls
\* ------------------------------------------------------------------------
Whitespace == {" "}
Digits == {"5", "7", "8"}

RECURSIVE StrsUpTo(_, _)
StrsUpTo(chars, n) ==
    IF n = 0 THEN {<<>>}
    ELSE LET shorter == StrsUpTo(chars, n - 1)
         IN  shorter \cup {Append(s, c) : s \in {t \in shorter : Len(t) = n - 1}, c \in chars}

\* str.lower() on one character
LowerChar(c) ==
    CASE c = "A" -> "a"
      [] c = "B" -> "b"
      [] OTHER -> c

\* str.lower()
Lower(s) == [i \in 1..Len(s) |-> LowerChar(s[i])]

RECURSIVE LStrip(_, _)
\* str.lstrip(chars)
LStrip(s, chars) ==
    IF s # <<>> /\ Head(s) \in chars THEN LStrip(Tail(s), chars) ELSE s

RECURSIVE RStrip(_, _)
\* str.rstrip(chars)
RStrip(s, chars) ==
    IF s # <<>> /\ s[Len(s)] \in chars THEN RStrip(SubSeq(s, 1, Len(s) - 1), chars) ELSE s

\* str.strip()
Strip(s) == RStrip(LStrip(s, Whitespace), Whitespace)

RECURSIVE SplitFrom(_, _, _, _)
SplitFrom(s, sep, i, cur) ==
    IF i > Len(s) THEN <<cur>>
    ELSE IF s[i] = sep THEN <<cur>> \o SplitFrom(s, sep, i + 1, <<>>)
    ELSE SplitFrom(s, sep, i + 1, Append(cur, s[i]))

\* str.split(sep): "".split(",") is [""]
Split(s, sep) == SplitFrom(s, sep, 1, <<>>)

\* k in t, for strings
Contains(k, t) ==
    \E i \in 0..(Len(t) - Len(k)) : SubSeq(t, i + 1, i + Len(k)) = k

\* str.isdigit()
IsDigit(s) == s # <<>> /\ \A i \in 1..Len(s) : s[i] \in Digits

DigitVal(c) ==
    CASE c = "5" -> 5
      [] c = "7" -> 7
      [] c = "8" -> 8
      [] OTHER -> 0

RECURSIVE DecVal(_)
DecVal(s) == IF s = <<>> THEN 0 ELSE 10 * DecVal(SubSeq(s, 1, Len(s) - 1)) + DigitVal(s[Len(s)])

\* int(s) succeeds: surrounding blanks, at most one sign, then digits
IntOk(s) ==
    LET t == Strip(s)
        u == IF t # <<>> /\ Head(t) \in {"-", "+"} THEN Tail(t) ELSE t
    IN  IsDigit(u)

\* int(s), where IntOk(s)
IntVal(s) ==
    LET t == Strip(s)
    IN  IF t # <<>> /\ Head(t) = "-" THEN 0 - DecVal(Tail(t))
        ELSE IF t # <<>> /\ Head(t) = "+" THEN DecVal(Tail(t))
        ELSE DecVal(t)

\* the comprehension [k.strip().lower() for k in (field or "").split(',') if k.strip()]
RECURSIVE KeepKeywords(_)
KeepKeywords(parts) ==
    IF parts = <<>> THEN <<>>
    ELSE IF Strip(Head(parts)) # <<>>
         THEN <<Lower(Strip(Head(parts)))>> \o KeepKeywords(Tail(parts))
         ELSE KeepKeywords(Tail(parts))

ParseKeywords(field) ==
    KeepKeywords(Split(IF field = None THEN <<>> ELSE field, ","))

\* ------------------------------------------------------------------------
\* Documents of the store and the per-session closure of _run_client
\* ------------------------------------------------------------------------
\* find_one(...) returned None
NoAuto == [present |-> FALSE, message |-> <<>>, keywords |-> None]
NoSmart == [present |-> FALSE, enabled |-> FALSE, message |-> <<>>,
            must_contain |-> None, maybe_contain |-> None]
EmptyCfg == [rules |-> <<>>, auto |-> NoAuto, smart |-> NoSmart]

\* the variables the handlers of one _run_client call close over
EmptySnap ==
    [rules |-> <<>>, source_chat_ids |-> {}, fwdReg |-> FALSE,
     settings |-> NoAuto, keywords |-> <<>>, autoReg |-> FALSE,
     smart_settings |-> NoSmart, must_contain |-> <<>>, maybe_contain |-> <<>>,
     smartReg |-> FALSE]

VARIABLES
    clients,      \* self.clients: phone -> the client registered under it (by its task)
    dbStatus,     \* accounts_collection: phone -> status of its document
    supPc,        \* each _run_client task: the await it is suspended at
    supPhone,     \* each _run_client task: its phone argument
    supConn,      \* each _run_client task: its TelegramClient is connected
    supExit,      \* each _run_client task: the path it left the try block by
    startupTodo,  \* startup(): accounts of the cursor not yet launched
    obPhone,      \* start_interactive_session: the account upserted, task not yet created
    dcPc,         \* disconnect_client: the await it is suspended at
    dcPhone,      \* disconnect_client: its phone argument
    cfg,          \* the rule and settings collections, per account
    snap,         \* each _run_client task: its closure
    connCfg,      \* each _run_client task: the documents its queries returned
    out,          \* what the handlers did for the last inbound event, and whether
                  \* the stored configuration then differed from what the task read
    reloaded,     \* accounts for which reload_rules_for_client returned True
                  \* since their stored configuration was last changed
    dbDoc,        \* accounts_collection: phone -> owner and session_string of its document
    ob,           \* start_interactive_session: its locals, its client, the websocket
    job,          \* start_forwarding_job and the _forwarding_job_runner task it created
    joinCall,     \* join_groups_for_account: its arguments, locals and result
    validateCall, \* validate_telegram_link: its argument, locals and result
    extractCall,  \* extract_from_channel: its arguments, locals and result
    dcResult      \* disconnect_client: what its last call returned

vars == <<clients, dbStatus, supPc, supPhone, supConn, supExit, startupTodo,
          obPhone, dcPc, dcPhone, cfg, snap, connCfg, out, reloaded, dbDoc, ob, job,
          joinCall, validateCall, extractCall, dcResult>>

\* what start_interactive_session and the forwarding job read and write
\* beside the registry, the statuses and the tasks
callVars == <<joinCall, validateCall, extractCall, dcResult>>

flowVars == <<dbDoc, ob, job, callVars>>

lifeVars == <<clients, dbStatus, supPc, supPhone, supConn, supExit, startupTodo,
              obPhone, dcPc, dcPhone, flowVars>>

NoOut == [sup |-> NoClient]

\* find_one({"phone": phone}) returning None, and a document stored earlier
NoDoc == [owner |-> "-", session_string |-> "-"]
StoredDoc == [owner |-> "u0", session_string |-> "s0"]

\* start_interactive_session not called: no client, the websocket accepted
NoOb ==
    [pc |-> "idle", connected |-> FALSE, channel |-> "open", trace |-> <<>>,
     phone_input |-> NoPhone, correct_phone_number |-> NoPhone,
     session_string |-> "-", owner |-> "-", password_needed |-> FALSE,
     failed |-> "none", task |-> <<>>]

\* start_forwarding_job not called
NoJob ==
    [pc |-> "idle", result |-> "none", phone |-> NoPhone, client |-> NoClient,
     message_link |-> <<>>,
     delay |-> 0, cycle_delay |-> 0, targets |-> <<>>, hide_sender |-> FALSE,
     target |-> 0, chat |-> <<>>, message_id |-> 0, cancelled |-> FALSE,
     trace |-> <<>>]

\* join_groups_for_account not called
NoJoin ==
    [pc |-> "idle", client |-> NoClient, group_links |-> <<>>, link |-> 0,
     results |-> <<>>, returned |-> FALSE, cancelled |-> FALSE, trace |-> <<>>]

\* validate_telegram_link not called
NoValidate ==
    [pc |-> "idle", client |-> NoClient, result |-> [status |-> "none", result |-> <<>>],
     returned |-> FALSE, cancelled |-> FALSE, trace |-> <<>>]

\* extract_from_channel not called
NoExtract ==
    [pc |-> "idle", client |-> NoClient, extract_type |-> "-", messages |-> <<>>,
     message |-> 0, results |-> {}, status |-> "none", data |-> <<>>,
     returned |-> FALSE, cancelled |-> FALSE, trace |-> <<>>]

\* ------------------------------------------------------------------------
\* The three event handlers registered by _run_client
\* ------------------------------------------------------------------------
\* what one call of handler(event) did: the destinations forwarded to, the
\* rules (by position) whose try block was entered, those logged as invalid
\* or as failed, and whether the call ended by an uncaught exception
NoForward ==
    [ran |-> FALSE, fwd |-> <<>>, tried |-> <<>>, invalid |-> <<>>, failed |-> <<>>,
     aborted |-> FALSE]

RECURSIVE HandlerLoop(_, _, _, _, _)
\* the loop "for rule in rules" of handler(event); fails are the positions
\* of the rules whose event.forward_to raises
HandlerLoop(rules, chat_id, fails, i, acc) ==
    IF i > Len(rules) THEN acc
    ELSE IF ~IntOk(rules[i].source_chat)
         THEN [acc EXCEPT !.aborted = TRUE]
    ELSE IF IntVal(rules[i].source_chat) # chat_id
         THEN HandlerLoop(rules, chat_id, fails, i + 1, acc)
    ELSE IF ~IntOk(rules[i].destination_chat)
         THEN HandlerLoop(rules, chat_id, fails, i + 1,
                  [acc EXCEPT !.tried = Append(@, i), !.invalid = Append(@, i)])
    ELSE IF i \in fails
         THEN HandlerLoop(rules, chat_id, fails, i + 1,
                  [acc EXCEPT !.tried = Append(@, i), !.failed = Append(@, i)])
    ELSE HandlerLoop(rules, chat_id, fails, i + 1,
             [acc EXCEPT !.tried = Append(@, i),
                         !.fwd = Append(@, IntVal(rules[i].destination_chat))])

\* handler(event), registered with events.NewMessage(chats=source_chat_ids)
handler(rules, event, fails) ==
    HandlerLoop(rules, event.chat_id, fails, 1, [NoForward EXCEPT !.ran = TRUE])

\* any(k in message_text for k in keywords)
AnyIn(keywords, text) == \E i \in 1..Len(keywords) : Contains(keywords[i], text)

\* all(k in message_text for k in keywords)
AllIn(keywords, text) == \A i \in 1..Len(keywords) : Contains(keywords[i], text)

\* auto_reply_handler matching the keywords against event.raw_text as received
auto_reply_handler_raw_text(settings, keywords, event) ==
    IF event.is_private /\ ~event.out
    THEN IF keywords # <<>>
         THEN IF AnyIn(keywords, event.raw_text)
              THEN <<[by |-> "auto", message |-> settings.message]>>
              ELSE <<>>
         ELSE <<[by |-> "auto", message |-> settings.message]>>
    ELSE <<>>

\* auto_reply_handler without its else branch: no keyword, no reply
auto_reply_handler_keywords_only(settings, keywords, event) ==
    IF event.is_private /\ ~event.out /\ AnyIn(keywords, Lower(event.raw_text))
    THEN <<[by |-> "auto", message |-> settings.message]>>
    ELSE <<>>

\* auto_reply_handler(event): the replies it sends
auto_reply_handler(settings, keywords, event) ==
    IF event.is_private /\ ~event.out
    THEN LET message_text == Lower(event.raw_text)
         IN  IF keywords # <<>>
             THEN IF AnyIn(keywords, message_text)
                  THEN <<[by |-> "auto", message |-> settings.message]>>
                  ELSE <<>>
             ELSE <<[by |-> "auto", message |-> settings.message]>>
    ELSE <<>>

\* smart_selling_handler replying on must_pass and (maybe_pass or no maybe
\* keyword), as its comment words the rule
smart_selling_handler_as_commented(smart_settings, must_contain, maybe_contain, event) ==
    IF /\ event.is_private /\ ~event.out
       /\ AllIn(must_contain, Lower(event.raw_text))
       /\ (maybe_contain = <<>> \/ AnyIn(maybe_contain, Lower(event.raw_text)))
    THEN <<[by |-> "smart", message |-> smart_settings.message]>>
    ELSE <<>>

\* smart_selling_handler(event): the replies it sends
smart_selling_handler(smart_settings, must_contain, maybe_contain, event) ==
    IF event.is_private /\ ~event.out
    THEN LET message_text == Lower(event.raw_text)
             must_pass == IF must_contain # <<>> THEN AllIn(must_contain, message_text) ELSE TRUE
             maybe_pass == IF maybe_contain # <<>> THEN AnyIn(maybe_contain, message_text) ELSE FALSE
             should_reply ==
                 IF must_contain # <<>> /\ maybe_contain # <<>> THEN must_pass /\ maybe_pass
                 ELSE IF must_contain # <<>> THEN must_pass
                 ELSE IF maybe_contain # <<>> THEN maybe_pass
                 ELSE FALSE
         IN  IF should_reply
             THEN <<[by |-> "smart", message |-> smart_settings.message]>>
             ELSE <<>>
    ELSE <<>>

\* the query of lines 69-73: the account's rules whose status is Active or active
RECURSIVE ActiveRules(_)
ActiveRules(docs) ==
    IF docs = <<>> THEN <<>>
    ELSE IF Head(docs).status \in {"Active", "active"}
         THEN <<Head(docs)>> \o ActiveRules(Tail(docs))
         ELSE ActiveRules(Tail(docs))

\* the rules that pass "str(rule['source_chat']).lstrip('-').isdigit()"
ListenedRules(rules) ==
    {i \in 1..Len(rules) : IsDigit(LStrip(rules[i].source_chat, {"-"}))}

\* int(rule['source_chat']) raises for one of them
SourceIdsRaise(rules) ==
    \E i \in ListenedRules(rules) : ~IntOk(rules[i].source_chat)

\* source_chat_ids
SourceChatIds(rules) ==
    {IntVal(rules[i].source_chat) : i \in ListenedRules(rules)}

\* the closure after lines 67-104: the rules read, and handler registered
\* unless there is no rule or the comprehension of source_chat_ids raises
with_rules(sn, docs) ==
    LET rules == ActiveRules(docs)
    IN  IF rules # <<>> /\ SourceIdsRaise(rules)
        THEN [sn EXCEPT !.rules = rules]
        ELSE [sn EXCEPT !.rules = rules,
                        !.source_chat_ids = SourceChatIds(rules),
                        !.fwdReg = (rules # <<>>)]

\* the closure after lines 107-133
with_auto(sn, settings) ==
    IF settings.present /\ settings.message # <<>>
    THEN [sn EXCEPT !.settings = settings,
                    !.keywords = ParseKeywords(settings.keywords),
                    !.autoReg = TRUE]
    ELSE [sn EXCEPT !.settings = settings]

\* the closure after lines 136-175
with_smart(sn, smart_settings) ==
    IF smart_settings.present /\ smart_settings.enabled /\ smart_settings.message # <<>>
    THEN [sn EXCEPT !.smart_settings = smart_settings,
                    !.must_contain = ParseKeywords(smart_settings.must_contain),
                    !.maybe_contain = ParseKeywords(smart_settings.maybe_contain),
                    !.smartReg = TRUE]
    ELSE [sn EXCEPT !.smart_settings = smart_settings]

\* what the client does with one update: each registered handler whose
\* event filter accepts it runs, in the order of registration
Forwarded(sn, event, fails) ==
    IF sn.fwdReg /\ event.chat_id \in sn.source_chat_ids
    THEN handler(sn.rules, event, fails)
    ELSE NoForward

\* the handler that replies first stops the propagation of the event
Replied_until_first_reply(sn, event) ==
    LET auto == IF sn.autoReg /\ ~event.out
                THEN auto_reply_handler(sn.settings, sn.keywords, event) ELSE <<>>
    IN  IF auto # <<>> THEN auto
        ELSE IF sn.smartReg /\ ~event.out
        THEN smart_selling_handler(sn.smart_settings, sn.must_contain,
                                   sn.maybe_contain, event)
        ELSE <<>>

Replied(sn, event) ==
    (IF sn.autoReg /\ ~event.out
     THEN auto_reply_handler(sn.settings, sn.keywords, event) ELSE <<>>)
    \o (IF sn.smartReg /\ ~event.out
        THEN smart_selling_handler(sn.smart_settings, sn.must_contain,
                                   sn.maybe_contain, event)
        ELSE <<>>)

\* ------------------------------------------------------------------------
\* Tasks: asyncio.create_task(self._run_client(phone, session_string))
\* ------------------------------------------------------------------------
FreeSups == {s \in Sups : supPc[s] = "idle"}
NewSup == CHOOSE s \in FreeSups : \A t \in FreeSups : s <= t

create_task(phone) ==
    /\ supPc' = [supPc EXCEPT ![NewSup] = "start"]
    /\ supPhone' = [supPhone EXCEPT ![NewSup] = phone]

\* startup(): the document stays in the cursor after its task is created
startup_relaunches(phone) ==
    /\ phone \in startupTodo
    /\ FreeSups # {}
    /\ create_task(phone)
    /\ UNCHANGED <<clients, dbStatus, supConn, supExit, startupTodo, obPhone, dcPc,
                   dcPhone, cfg, snap, connCfg, out, reloaded, flowVars>>

\* startup(): one task per document of find({"status": "Online"})
startup(phone) ==
    /\ phone \in startupTodo
    /\ FreeSups # {}
    /\ create_task(phone)
    /\ startupTodo' = startupTodo \ {phone}
    /\ UNCHANGED <<clients, dbStatus, supConn, supExit, obPhone, dcPc, dcPhone,
                   cfg, snap, connCfg, out, reloaded, flowVars>>

\* _run_client: client.start(phone) returns, self.clients[phone] = client
run_client_start_ok(s) ==
    /\ supPc[s] = "start"
    /\ supConn' = [supConn EXCEPT ![s] = TRUE]
    /\ clients' = [clients EXCEPT ![supPhone[s]] = s]
    /\ supPc' = [supPc EXCEPT ![s] = "persist"]
    /\ UNCHANGED <<dbStatus, supPhone, supExit, startupTodo, obPhone, dcPc, dcPhone,
                   cfg, snap, connCfg, out, reloaded, flowVars>>

\* _run_client: client.start(phone) raises
run_client_start_fail(s) ==
    /\ supPc[s] = "start"
    /\ supPc' = [supPc EXCEPT ![s] = "except"]
    /\ supExit' = [supExit EXCEPT ![s] = "connect_failed"]
    /\ UNCHANGED <<clients, dbStatus, supPhone, supConn, startupTodo, obPhone, dcPc,
                   dcPhone, cfg, snap, connCfg, out, reloaded, flowVars>>

\* update_one({"phone": phone}, {"$set": {"status": status}}): no upsert
update_status(phone, status) ==
    dbStatus' = [dbStatus EXCEPT ![phone] = IF @ = "NoRecord" THEN @ ELSE status]

\* _run_client: status Online is persisted
run_client_persist_online(s) ==
    /\ supPc[s] = "persist"
    /\ update_status(supPhone[s], "Online")
    /\ supPc' = [supPc EXCEPT ![s] = "loadRules"]
    /\ UNCHANGED <<clients, supPhone, supConn, supExit, startupTodo, obPhone, dcPc,
                   dcPhone, cfg, snap, connCfg, out, reloaded, flowVars>>

\* _run_client: the rules are read and handler is registered; the
\* comprehension of source_chat_ids raises on a source such as "--5"
run_client_load_rules(s) ==
    /\ supPc[s] = "loadRules"
    /\ connCfg' = [connCfg EXCEPT ![s].rules = cfg[supPhone[s]].rules]
    /\ snap' = [snap EXCEPT ![s] = with_rules(@, cfg[supPhone[s]].rules)]
    /\ IF ActiveRules(cfg[supPhone[s]].rules) # <<>>
          /\ SourceIdsRaise(ActiveRules(cfg[supPhone[s]].rules))
       THEN /\ supPc' = [supPc EXCEPT ![s] = "except"]
            /\ supExit' = [supExit EXCEPT ![s] = "error"]
       ELSE /\ supPc' = [supPc EXCEPT ![s] = "loadAuto"]
            /\ UNCHANGED supExit
    /\ UNCHANGED <<clients, dbStatus, supPhone, supConn, startupTodo, obPhone, dcPc,
                   dcPhone, cfg, out, reloaded, flowVars>>

\* _run_client: the auto-reply settings are read, auto_reply_handler registered
run_client_load_auto(s) ==
    /\ supPc[s] = "loadAuto"
    /\ connCfg' = [connCfg EXCEPT ![s].auto = cfg[supPhone[s]].auto]
    /\ snap' = [snap EXCEPT ![s] = with_auto(@, cfg[supPhone[s]].auto)]
    /\ supPc' = [supPc EXCEPT ![s] = "loadSmart"]
    /\ UNCHANGED <<clients, dbStatus, supPhone, supConn, supExit, startupTodo, obPhone,
                   dcPc, dcPhone, cfg, out, reloaded, flowVars>>

\* _run_client: the smart-selling settings are read, smart_selling_handler
\* registered, and the task awaits run_until_disconnected
run_client_load_smart(s) ==
    /\ supPc[s] = "loadSmart"
    /\ connCfg' = [connCfg EXCEPT ![s].smart = cfg[supPhone[s]].smart]
    /\ snap' = [snap EXCEPT ![s] = with_smart(@, cfg[supPhone[s]].smart)]
    /\ supPc' = [supPc EXCEPT ![s] = "run"]
    /\ UNCHANGED <<clients, dbStatus, supPhone, supConn, supExit, startupTodo, obPhone,
                   dcPc, dcPhone, cfg, out, reloaded, flowVars>>

\* _run_client: a query or update of the store raises while the client is up
run_client_db_error(s) ==
    /\ supPc[s] \in {"persist", "loadRules", "loadAuto", "loadSmart"}
    /\ supPc' = [supPc EXCEPT ![s] = "except"]
    /\ supExit' = [supExit EXCEPT ![s] = "error"]
    /\ UNCHANGED <<clients, dbStatus, supPhone, supConn, startupTodo, obPhone, dcPc,
                   dcPhone, cfg, snap, connCfg, out, reloaded, flowVars>>

\* the connection of a started client drops (the remote side, the network)
connection_lost(s) ==
    /\ supConn[s]
    /\ supConn' = [supConn EXCEPT ![s] = FALSE]
    /\ UNCHANGED <<clients, dbStatus, supPc, supPhone, supExit, startupTodo, obPhone,
                   dcPc, dcPhone, cfg, snap, connCfg, out, reloaded, flowVars>>

\* the registry after "if phone in self.clients: del self.clients[phone]"
registry_after_finally(phone) == [clients EXCEPT ![phone] = NoClient]

\* _run_client: run_until_disconnected returns; finally deletes the entry
run_client_disconnected(s) ==
    /\ supPc[s] = "run"
    /\ ~supConn[s]
    /\ clients' = registry_after_finally(supPhone[s])
    /\ supPc' = [supPc EXCEPT ![s] = "finallyWrite"]
    /\ supExit' = [supExit EXCEPT ![s] = "disconnected"]
    /\ UNCHANGED <<dbStatus, supPhone, supConn, startupTodo, obPhone, dcPc, dcPhone,
                   cfg, snap, connCfg, out, reloaded, flowVars>>

\* _run_client: run_until_disconnected raises
run_client_run_error(s) ==
    /\ supPc[s] = "run"
    /\ supConn[s]
    /\ supConn' = [supConn EXCEPT ![s] = FALSE]
    /\ supPc' = [supPc EXCEPT ![s] = "except"]
    /\ supExit' = [supExit EXCEPT ![s] = "error"]
    /\ UNCHANGED <<clients, dbStatus, supPhone, startupTodo, obPhone, dcPc, dcPhone,
                   cfg, snap, connCfg, out, reloaded, flowVars>>

\* _run_client: except Exception persists status Error
run_client_except(s) ==
    /\ supPc[s] = "except"
    /\ update_status(supPhone[s], "Error")
    /\ supPc' = [supPc EXCEPT ![s] = "finally"]
    /\ UNCHANGED <<clients, supPhone, supConn, supExit, startupTodo, obPhone, dcPc,
                   dcPhone, cfg, snap, connCfg, out, reloaded, flowVars>>

\* _run_client: finally deletes the entry, after the except clause
run_client_finally_del(s) ==
    /\ supPc[s] = "finally"
    /\ clients' = registry_after_finally(supPhone[s])
    /\ supPc' = [supPc EXCEPT ![s] = "finallyWrite"]
    /\ UNCHANGED <<dbStatus, supPhone, supConn, supExit, startupTodo, obPhone, dcPc,
                   dcPhone, cfg, snap, connCfg, out, reloaded, flowVars>>

\* the status the finally clause persists
status_in_finally(s) == "Offline"

\* _run_client: finally persists its status and the task ends
run_client_finally_write(s) ==
    /\ supPc[s] = "finallyWrite"
    /\ update_status(supPhone[s], status_in_finally(s))
    /\ supPc' = [supPc EXCEPT ![s] = "done"]
    /\ UNCHANGED <<clients, supPhone, supConn, supExit, startupTodo, obPhone, dcPc,
                   dcPhone, cfg, snap, connCfg, out, reloaded, flowVars>>

\* ------------------------------------------------------------------------
\* start_interactive_session: the end of a successful login
\* ------------------------------------------------------------------------
\* the account document is upserted with status Online
interactive_session_upsert(phone) ==
    /\ startupTodo = {}
    /\ obPhone = NoPhone
    /\ FreeSups # {}
    /\ dbStatus' = [dbStatus EXCEPT ![phone] = "Online"]
    /\ dbDoc' = [dbDoc EXCEPT ![phone] = StoredDoc]
    /\ obPhone' = phone
    /\ UNCHANGED <<clients, supPc, supPhone, supConn, supExit, startupTodo, dcPc,
                   dcPhone, cfg, snap, connCfg, out, reloaded, ob, job, callVars>>

\* the _run_client task of the new account is created
interactive_session_spawn ==
    /\ obPhone # NoPhone
    /\ FreeSups # {}
    /\ create_task(obPhone)
    /\ obPhone' = NoPhone
    /\ UNCHANGED <<clients, dbStatus, supConn, supExit, startupTodo, dcPc, dcPhone,
                   cfg, snap, connCfg, out, reloaded, flowVars>>

\* ------------------------------------------------------------------------
\* start_interactive_session, await by await
\* ------------------------------------------------------------------------
Owners == {"u1", "u2"}
SessionStrings == {"s1"}

\* an await of the try block raises at step; lost: the client's connection
\* went down with it
raise(o, step, lost) ==
    [o EXCEPT !.pc = "except", !.failed = step, !.connected = @ /\ ~lost]

\* websocket.send_json(msg): WebSocketDisconnect once the peer has gone
send_json(o, msg, next) ==
    IF o.channel = "open"
    THEN [o EXCEPT !.trace = Append(@, msg), !.pc = next]
    ELSE raise(o, "channel", FALSE)

\* websocket.receive_json(): the frame received is part of the exchange even
\* when it is not JSON (json.loads raises) ; WebSocketDisconnect once the peer
\* has gone
receive_json(o, is_json, next) ==
    IF o.channel = "open"
    THEN IF is_json
         THEN [o EXCEPT !.trace = Append(@, "data"), !.pc = next]
         ELSE raise([o EXCEPT !.trace = Append(@, "data")], "receive", FALSE)
    ELSE raise(o, "channel", FALSE)

\* the steps of start_interactive_session change ob only, but for the upsert
\* and the create_task
login_frame ==
    UNCHANGED <<clients, dbStatus, supPc, supPhone, supConn, supExit, startupTodo,
                obPhone, dcPc, dcPhone, cfg, snap, connCfg, out, reloaded, dbDoc, job,
                callVars>>

\* the peer closes the websocket while the flow runs
websocket_closed ==
    /\ ob.pc \notin {"idle", "done"}
    /\ ob.channel = "open"
    /\ ob' = [ob EXCEPT !.channel = "closed"]
    /\ login_frame

\* start_interactive_session(websocket, owner_user) up to client.connect()
start_interactive_session(owner) ==
    /\ ob.pc = "idle"
    /\ ob' = [ob EXCEPT !.pc = "connect", !.owner = owner]
    /\ login_frame

\* await client.connect()
login_connect ==
    /\ ob.pc = "connect"
    /\ \/ ob' = [ob EXCEPT !.pc = "prompt_phone", !.connected = TRUE]
       \/ ob' = raise(ob, "connect", FALSE)
    /\ login_frame

\* send_json of the three prompts
login_prompt ==
    /\ ob.pc \in {"prompt_phone", "prompt_code", "prompt_password"}
    /\ ob' = send_json(ob, ob.pc,
                       CASE ob.pc = "prompt_phone" -> "recv_phone"
                         [] ob.pc = "prompt_code" -> "recv_code"
                         [] OTHER -> "recv_password")
    /\ login_frame

\* response = await websocket.receive_json(); phone_input = response.get("data")
login_receive_phone ==
    /\ ob.pc = "recv_phone"
    /\ \E is_json \in BOOLEAN, phone_input \in Phones :
           ob' = [receive_json(ob, is_json, "send_code_request")
                      EXCEPT !.phone_input =
                          IF ob.channel = "open" /\ is_json THEN phone_input ELSE @]
    /\ login_frame

\* the code and the password are received the same way
login_receive ==
    /\ ob.pc \in {"recv_code", "recv_password"}
    /\ \E is_json \in BOOLEAN :
           ob' = receive_json(ob, is_json,
                              IF ob.pc = "recv_code" THEN "sign_in"
                              ELSE "sign_in_password")
    /\ login_frame

\* sent_code = await client.send_code_request(phone_input)
login_send_code_request ==
    /\ ob.pc = "send_code_request"
    /\ \/ ob' = [ob EXCEPT !.pc = "prompt_code"]
       \/ \E lost \in BOOLEAN : ob' = raise(ob, "send_code_request", lost)
    /\ login_frame

\* where the flow goes on when sign_in with the code returns
sign_in_returned_asks_password(o) == [o EXCEPT !.pc = "prompt_password"]

sign_in_returned(o) == [o EXCEPT !.pc = "get_me"]

\* await client.sign_in(phone_input, code, ...): it returns, it raises
\* SessionPasswordNeededError (caught by the inner try), or it raises otherwise
login_sign_in ==
    /\ ob.pc = "sign_in"
    /\ \/ ob' = sign_in_returned(ob)
       \/ ob' = [ob EXCEPT !.pc = "prompt_password", !.password_needed = TRUE]
       \/ \E lost \in BOOLEAN : ob' = raise(ob, "sign_in", lost)
    /\ login_frame

\* await client.sign_in(password=password)
login_sign_in_password ==
    /\ ob.pc = "sign_in_password"
    /\ \/ ob' = [ob EXCEPT !.pc = "get_me"]
       \/ \E lost \in BOOLEAN : ob' = raise(ob, "sign_in_password", lost)
    /\ login_frame

\* me = await client.get_me(); session_string = client.session.save();
\* correct_phone_number = f"+{me.phone}"
login_get_me ==
    /\ ob.pc = "get_me"
    /\ \/ \E phone \in Phones, session_string \in SessionStrings :
              ob' = [ob EXCEPT !.pc = "upsert", !.correct_phone_number = phone,
                               !.session_string = session_string]
       \/ \E lost \in BOOLEAN : ob' = raise(ob, "get_me", lost)
    /\ login_frame

\* the identifier the account document is stored under
account_key_as_entered(o) == o.phone_input

account_key(o) == o.correct_phone_number

\* await accounts_collection.update_one({"phone": ...}, {"$set": account_doc},
\* upsert=True), or the store raises
login_upsert ==
    /\ ob.pc = "upsert"
    /\ \/ /\ dbStatus' = [dbStatus EXCEPT ![account_key(ob)] = "Online"]
          /\ dbDoc' = [dbDoc EXCEPT ![account_key(ob)] =
                           [owner |-> ob.owner, session_string |-> ob.session_string]]
          /\ ob' = [ob EXCEPT !.pc = "spawn"]
       \/ /\ ob' = raise(ob, "upsert", FALSE)
          /\ UNCHANGED <<dbStatus, dbDoc>>
    /\ UNCHANGED <<clients, supPc, supPhone, supConn, supExit, startupTodo, obPhone,
                   dcPc, dcPhone, cfg, snap, connCfg, out, reloaded, job, callVars>>

\* asyncio.create_task(self._run_client(correct_phone_number, session_string))
login_spawn ==
    /\ ob.pc = "spawn"
    /\ FreeSups # {}
    /\ create_task(ob.correct_phone_number)
    /\ ob' = [ob EXCEPT !.pc = "success",
                        !.task = <<ob.correct_phone_number, ob.session_string>>]
    /\ UNCHANGED <<clients, dbStatus, supConn, supExit, startupTodo, obPhone, dcPc,
                   dcPhone, cfg, snap, connCfg, out, reloaded, dbDoc, job, callVars>>

\* await websocket.send_json({"type": "success", ...}), the last statement of
\* the try block
login_success ==
    /\ ob.pc = "success"
    /\ ob' = send_json(ob, "success", "finally")
    /\ login_frame

\* the websocket exchange after the except clause on an open channel
error_ack_silent(o) == o.trace

error_ack(o) == Append(o.trace, "error")

\* except Exception: the failure is logged and send_json({"type": "error"});
\* this send_json raises in its turn once the peer has gone
login_except ==
    /\ ob.pc = "except"
    /\ ob' = [ob EXCEPT !.pc = "finally",
                        !.trace = IF ob.channel = "open" THEN error_ack(ob) ELSE @]
    /\ login_frame

\* client.is_connected() after the finally clause
connected_after_except_only(o) == o.connected /\ o.failed = "none"

connected_after_finally(o) == FALSE

\* finally: if client.is_connected(): await client.disconnect()
login_finally ==
    /\ ob.pc = "finally"
    /\ ob' = [ob EXCEPT !.pc = "done", !.connected = connected_after_finally(ob)]
    /\ login_frame

\* main.py websocket_add_account: the websocket is accepted and
\* start_interactive_session is called with the websocket alone. A call whose
\* arguments do not fill the parameters of the function raises TypeError
\* before its body runs, and the endpoint catches WebSocketDisconnect only
websocket_add_account ==
    LET parameters == <<"websocket", "owner_user">>
        arguments == <<"websocket">>
    IN  /\ ob.pc = "idle"
        /\ ob.failed = "none"
        /\ ob' = IF Len(arguments) = Len(parameters)
                 THEN [ob EXCEPT !.pc = "connect"]
                 ELSE [ob EXCEPT !.pc = "done", !.failed = "TypeError"]
        /\ login_frame

\* ------------------------------------------------------------------------
\* start_forwarding_job and _forwarding_job_runner, await by await
\* ------------------------------------------------------------------------
\* parts = message_link.rstrip('/').split('/')
LinkParts(message_link) == Split(RStrip(message_link, {"/"}), "/")

\* parts[-2] and int(parts[-1]) both evaluate: neither IndexError nor ValueError
LinkParses(message_link) ==
    /\ Len(LinkParts(message_link)) >= 2
    /\ IntOk(LinkParts(message_link)[Len(LinkParts(message_link))])

\* one call the runner makes: a sleep of n seconds, a log line or a request
\* about targets[n]
Call(op, n, to) == [op |-> op, n |-> n, to |-> to]

job_frame ==
    UNCHANGED <<clients, dbStatus, supPc, supPhone, supConn, supExit, startupTodo,
                obPhone, dcPc, dcPhone, cfg, snap, connCfg, out, reloaded, dbDoc, ob,
                callVars>>

\* start_forwarding_job accepting the job of a phone that is not registered,
\* with no runner created
start_forwarding_job_accepts_all(phone, message_link, delay, cycle_delay, targets, hide_sender) ==
    /\ job.pc = "idle"
    /\ job.result = "none"
    /\ job' = IF clients[phone] = NoClient
              THEN [job EXCEPT !.result = "success", !.phone = phone]
              ELSE [job EXCEPT !.pc = "parse", !.result = "success", !.phone = phone,
                               !.client = clients[phone],
                               !.message_link = message_link,
                               !.delay = delay, !.cycle_delay = cycle_delay,
                               !.targets = targets, !.hide_sender = hide_sender]
    /\ job_frame

\* start_forwarding_job: an error result when the phone is not registered,
\* else the runner task is created with the registered client and the
\* accepted result is returned
start_forwarding_job(phone, message_link, delay, cycle_delay, targets, hide_sender) ==
    /\ job.pc = "idle"
    /\ job.result = "none"
    /\ job' = IF clients[phone] = NoClient
              THEN [job EXCEPT !.result = "error", !.phone = phone]
              ELSE [job EXCEPT !.pc = "parse", !.result = "success", !.phone = phone,
                               !.client = clients[phone],
                               !.message_link = message_link,
                               !.delay = delay, !.cycle_delay = cycle_delay,
                               !.targets = targets, !.hide_sender = hide_sender]
    /\ job_frame

\* the parse raised and the runner goes on to its first sleep all the same
after_parse_failure_goes_on(j) == [j EXCEPT !.pc = "sleep"]

\* the parse raised: the outer except clause logs the error and the task ends
after_parse_failure(j) ==
    [j EXCEPT !.pc = "done", !.trace = Append(@, Call("log_error", 0, "-"))]

\* the runner up to its first sleep: the link is parsed and the start logged
forwarding_job_runner_parse ==
    /\ job.pc = "parse"
    /\ job' = IF LinkParses(job.message_link)
              THEN LET parts == LinkParts(job.message_link)
                   IN  [job EXCEPT !.pc = "sleep",
                                   !.chat = parts[Len(parts) - 1],
                                   !.message_id = IntVal(parts[Len(parts)]),
                                   !.trace = Append(@, Call("log_start", 0, "-"))]
              ELSE after_parse_failure(job)
    /\ job_frame

\* await asyncio.sleep(delay)
forwarding_job_runner_sleep ==
    /\ job.pc = "sleep"
    /\ job' = [job EXCEPT !.pc = "loop", !.target = 1,
                          !.trace = Append(@, Call("sleep", job.delay, "-"))]
    /\ job_frame

\* the request the loop body makes first for a target
first_request_forward(j) ==
    Call("forward_messages", j.target, j.targets[j.target])

first_request(j) ==
    IF j.hide_sender
    THEN Call("get_messages", j.target, "-")
    ELSE Call("forward_messages", j.target, j.targets[j.target])

\* for target in targets: the first request for the next target is made; after
\* the last target the completion is logged and the task ends
forwarding_job_runner_next_target ==
    /\ job.pc = "loop"
    /\ job' = IF job.target <= Len(job.targets)
              THEN [job EXCEPT !.pc = first_request(job).op,
                               !.trace = Append(@, first_request(job))]
              ELSE [job EXCEPT !.pc = "done",
                               !.trace = Append(@, Call("log_completed", 0, "-"))]
    /\ job_frame

\* a request raises an Exception: the task dies
after_target_failure_abort(j) ==
    [j EXCEPT !.pc = "done", !.trace = Append(@, Call("log_error", 0, "-"))]

\* a request raises an Exception: the inner except clause logs it and the
\* loop goes on to the next target
after_target_failure(j) ==
    [j EXCEPT !.pc = "loop", !.target = @ + 1,
              !.trace = Append(@, Call("log_failed", j.target, j.targets[j.target]))]

\* a request on a disconnected client raises ConnectionError, an Exception
down_client_failure(j) == after_target_failure(j)

\* the future of the pending request was cancelled: CancelledError is not an
\* Exception, neither except clause of the runner catches it, and the task
\* ends with nothing logged
request_cancelled(j) == [j EXCEPT !.pc = "done"]

\* the success is logged, the cycle delay is next
after_target_success(j) ==
    [j EXCEPT !.pc = "cycle_sleep",
              !.trace = Append(@, Call("log_success", j.target, j.targets[j.target]))]

\* message_to_send = await client.get_messages(chat, ids=message_id): it
\* raises, it returns None (no such message), or it returns the message and
\* send_message is called
forwarding_job_runner_get_messages ==
    /\ job.pc = "get_messages"
    /\ IF job.cancelled THEN job' = request_cancelled(job)
       ELSE IF supConn[job.client]
       THEN \/ job' = after_target_failure(job)
            \/ job' = after_target_success(job)
            \/ job' = [job EXCEPT !.pc = "send_message",
                                  !.trace = Append(@, Call("send_message", job.target,
                                                           job.targets[job.target]))]
       ELSE job' = down_client_failure(job)
    /\ job_frame

\* await client.send_message(...) or await client.forward_messages(...)
forwarding_job_runner_delivery ==
    /\ job.pc \in {"send_message", "forward_messages"}
    /\ IF job.cancelled THEN job' = request_cancelled(job)
       ELSE IF supConn[job.client]
       THEN \/ job' = after_target_failure(job)
            \/ job' = after_target_success(job)
       ELSE job' = down_client_failure(job)
    /\ job_frame

\* await asyncio.sleep(cycle_delay), inside the try block of the target
forwarding_job_runner_cycle_sleep ==
    /\ job.pc = "cycle_sleep"
    /\ job' = [job EXCEPT !.pc = "loop", !.target = @ + 1,
                          !.trace = Append(@, Call("sleep", job.cycle_delay, "-"))]
    /\ job_frame

forwarding_job_runner ==
    \/ forwarding_job_runner_parse
    \/ forwarding_job_runner_sleep
    \/ forwarding_job_runner_next_target
    \/ forwarding_job_runner_get_messages
    \/ forwarding_job_runner_delivery
    \/ forwarding_job_runner_cycle_sleep

\* ------------------------------------------------------------------------
\* join_groups_for_account, validate_telegram_link, extract_from_channel
\* ------------------------------------------------------------------------
\* a call drops the registry entries it finds
query_frame_unregisters ==
    /\ clients' = [p \in Phones |-> NoClient]
    /\ UNCHANGED <<dbStatus, supPc, supPhone, supConn, supExit, startupTodo, obPhone,
                   dcPc, dcPhone, cfg, snap, connCfg, out, reloaded, dbDoc, ob, job,
                   dcResult>>

\* the three calls change their own frame only
query_frame ==
    UNCHANGED <<clients, dbStatus, supPc, supPhone, supConn, supExit, startupTodo,
                obPhone, dcPc, dcPhone, cfg, snap, connCfg, out, reloaded, dbDoc, ob,
                job, dcResult>>

\* what client(JoinChannelRequest(link)) does on a connected client: it
\* returns, or raises UserAlreadyParticipantError or another Exception e
\* (here by str(e))
JoinOutcomes == {"joined", "UserAlreadyParticipantError", "FloodWaitError"}

\* the list returned for a phone that is not registered, blank links skipped
not_online_results_of_attempts(group_links) ==
    LET links == SelectSeq(group_links, LAMBDA link : Strip(link) # <<>>)
    IN  [i \in 1..Len(links) |->
            [link |-> links[i], status |-> "error", reason |-> "Account is not online"]]

\* the list returned for a phone that is not registered
not_online_results(group_links) ==
    [i \in 1..Len(group_links) |->
        [link |-> group_links[i], status |-> "error", reason |-> "Account is not online"]]

\* the dictionary appended to results after the request on link
join_result(link, outcome) ==
    IF outcome = "joined"
    THEN [link |-> link, status |-> "success", reason |-> "Successfully joined"]
    ELSE IF outcome = "UserAlreadyParticipantError"
    THEN [link |-> link, status |-> "skipped", reason |-> "Already a member"]
    ELSE [link |-> link, status |-> "error", reason |-> outcome]

RECURSIVE join_loop(_)
\* "for link in group_links" from position j.link up to the next await: a
\* blank link is passed over, the request on a non-blank link is sent, and
\* after the last link the results are returned
join_loop(j) ==
    IF j.link > Len(j.group_links) THEN [j EXCEPT !.pc = "done", !.returned = TRUE]
    ELSE IF Strip(j.group_links[j.link]) = <<>> THEN join_loop([j EXCEPT !.link = @ + 1])
    ELSE [j EXCEPT !.pc = "JoinChannelRequest",
                   !.trace = Append(@, Call("JoinChannelRequest", j.link,
                                            j.group_links[j.link]))]

\* join_groups_for_account: one error per link when the phone is not
\* registered, else the loop is entered with the registered client
join_groups_for_account(phone, group_links) ==
    /\ joinCall.pc = "idle"
    /\ joinCall' =
         IF clients[phone] = NoClient
         THEN [joinCall EXCEPT !.pc = "done", !.group_links = group_links,
                               !.results = not_online_results(group_links),
                               !.returned = TRUE]
         ELSE join_loop([joinCall EXCEPT !.client = clients[phone],
                                         !.group_links = group_links, !.link = 1])
    /\ UNCHANGED <<validateCall, extractCall>>
    /\ query_frame

\* a failed request ends the loop: the results so far are returned
after_join_attempt_failure_returns(j, outcome) ==
    LET link == j.group_links[j.link]
        r == [j EXCEPT !.results = Append(@, join_result(link, outcome)),
                       !.trace = Append(@, Call(outcome, j.link, link))]
    IN  IF outcome \in {"joined", "UserAlreadyParticipantError"}
        THEN [r EXCEPT !.pc = "sleep", !.trace = Append(@, Call("sleep", j.link, link))]
        ELSE [r EXCEPT !.pc = "done", !.returned = TRUE]

\* asyncio.sleep(5) only after a request that returned
after_join_attempt_sleep_on_success(j, outcome) ==
    LET link == j.group_links[j.link]
        r == [j EXCEPT !.results = Append(@, join_result(link, outcome)),
                       !.trace = Append(@, Call(outcome, j.link, link))]
    IN  IF outcome = "joined"
        THEN [r EXCEPT !.pc = "sleep", !.trace = Append(@, Call("sleep", j.link, link))]
        ELSE join_loop([r EXCEPT !.link = @ + 1])

\* the try statement of one link has ended by outcome: its result is
\* appended, and asyncio.sleep(5) is awaited in every case
after_join_attempt(j, outcome) ==
    LET link == j.group_links[j.link]
    IN  [j EXCEPT !.pc = "sleep",
                  !.results = Append(@, join_result(link, outcome)),
                  !.trace = Append(Append(@, Call(outcome, j.link, link)),
                                   Call("sleep", j.link, link))]

\* await client(JoinChannelRequest(link)) ends: a request on a disconnected
\* client raises ConnectionError, a cancelled one CancelledError, which no
\* except clause of the loop catches
join_groups_for_account_request ==
    /\ joinCall.pc = "JoinChannelRequest"
    /\ IF joinCall.cancelled THEN joinCall' = [joinCall EXCEPT !.pc = "done"]
       ELSE IF supConn[joinCall.client]
       THEN \E outcome \in JoinOutcomes : joinCall' = after_join_attempt(joinCall, outcome)
       ELSE joinCall' = after_join_attempt(joinCall, "ConnectionError")
    /\ UNCHANGED <<validateCall, extractCall>>
    /\ query_frame

\* await asyncio.sleep(5) ends: the loop goes on with the next link
join_groups_for_account_sleep ==
    /\ joinCall.pc = "sleep"
    /\ joinCall' = join_loop([joinCall EXCEPT !.link = @ + 1])
    /\ UNCHANGED <<validateCall, extractCall>>
    /\ query_frame

\* what client.get_entity(link) returns
Entities == [class : {"Channel", "User", "Chat"}, flag : BOOLEAN]

\* entity_type: flag is entity.broadcast of a Channel, entity.bot of a User
entity_type(entity) ==
    IF entity.class = "Channel"
    THEN IF entity.flag THEN "Public Channel" ELSE "Public Group"
    ELSE IF entity.class = "User"
    THEN IF entity.flag THEN "Bot" ELSE "User"
    ELSE "Unknown"

\* the dictionary returned when get_entity raised e (here by its class)
validate_error(e) ==
    IF e \in {"ValueError", "TypeError"}
    THEN [status |-> "error", result |-> <<"Not Found (Invalid or Expired Link)">>]
    ELSE [status |-> "error", result |-> <<"An unexpected error occurred: ", e>>]

\* validate_telegram_link: an error result when the registry is empty, else
\* get_entity is awaited on the client of an entry of the registry
validate_telegram_link(link) ==
    /\ validateCall.pc = "idle"
    /\ IF \A p \in Phones : clients[p] = NoClient
       THEN validateCall' =
                [validateCall EXCEPT
                    !.pc = "done", !.returned = TRUE,
                    !.result = [status |-> "error",
                                result |-> <<"No accounts are online to perform the check.">>]]
       ELSE \E phone \in {p \in Phones : clients[p] # NoClient} :
                validateCall' =
                    [validateCall EXCEPT !.pc = "get_entity", !.client = clients[phone],
                                         !.trace = Append(@, Call("get_entity", 0, link))]
    /\ UNCHANGED <<joinCall, extractCall>>
    /\ query_frame

\* await client.get_entity(link) ends: it returns an entity or raises; on a
\* disconnected client it raises ConnectionError; a cancelled request raises
\* CancelledError, which neither except clause catches
validate_telegram_link_get_entity ==
    /\ validateCall.pc = "get_entity"
    /\ IF validateCall.cancelled THEN validateCall' = [validateCall EXCEPT !.pc = "done"]
       ELSE IF supConn[validateCall.client]
       THEN \/ \E entity \in Entities :
                   validateCall' =
                       [validateCall EXCEPT
                           !.pc = "done", !.returned = TRUE,
                           !.result = [status |-> "success",
                                       result |-> <<"Active", entity_type(entity)>>]]
            \/ \E e \in {"ValueError", "TypeError", "RPCError"} :
                   validateCall' = [validateCall EXCEPT !.pc = "done", !.returned = TRUE,
                                                        !.result = validate_error(e)]
       ELSE validateCall' = [validateCall EXCEPT !.pc = "done", !.returned = TRUE,
                                                 !.result = validate_error("ConnectionError")]
    /\ UNCHANGED <<joinCall, extractCall>>
    /\ query_frame

\* the keys of patterns
Patterns == {"usernames", "links", "phones"}

\* the characters of the extracted strings, by increasing code point
CodeOrder == <<"+", ".", "/", "5", "@", "a", "b", "e", "m", "t">>

RECURSIVE StrLess(_, _)
\* a < b of two str
StrLess(a, b) ==
    IF a = <<>> THEN b # <<>>
    ELSE IF b = <<>> THEN FALSE
    ELSE IF Head(a) = Head(b) THEN StrLess(Tail(a), Tail(b))
    ELSE (CHOOSE i \in 1..Len(CodeOrder) : CodeOrder[i] = Head(a))
             < (CHOOSE i \in 1..Len(CodeOrder) : CodeOrder[i] = Head(b))

RECURSIVE listed(_)
\* list(results), in an order the set may be iterated in
listed(results) ==
    IF results = {} THEN <<>>
    ELSE LET last == CHOOSE x \in results : \A y \in results \ {x} : StrLess(x, y)
         IN  Append(listed(results \ {last}), last)

RECURSIVE sorted_list(_)
\* sorted(list(results))
sorted_list(results) ==
    IF results = {} THEN <<>>
    ELSE LET first == CHOOSE x \in results : \A y \in results \ {x} : StrLess(x, y)
         IN  <<first>> \o sorted_list(results \ {first})

\* match.startswith(prefix)
StartsWith(match, prefix) ==
    Len(match) >= Len(prefix) /\ SubSeq(match, 1, Len(prefix)) = prefix

\* the string added to results for one match
match_added(extract_type, match) ==
    IF extract_type = "usernames" /\ ~StartsWith(match, <<"@">>)
    THEN <<"@">> \o match
    ELSE IF extract_type = "links" /\ ~StartsWith(match, <<"t", ".", "m", "e", "/">>)
    THEN <<"t", ".", "m", "e", "/">> \o match
    ELSE match

\* results after the body of the loop for one message: message.found is
\* what regex.findall(message.text) returns, and a message with no text is
\* passed over
results_after(message, extract_type, results) ==
    IF message.text
    THEN results \cup {match_added(extract_type, message.found[i]) :
                           i \in 1..Len(message.found)}
    ELSE results

\* the kind is looked up when the first message arrives
extract_checked_kind_late(x, client, extract_type) ==
    IF client = NoClient
    THEN [x EXCEPT !.pc = "done", !.returned = TRUE, !.status = "error",
                   !.data = <<"Account is not online.">>]
    ELSE [x EXCEPT !.pc = "iter_messages", !.client = client, !.message = 1,
                   !.trace = Append(@, Call("iter_messages", 0, "-"))]

\* the two checks made before the try statement, and the entry of the loop
extract_checked(x, client, extract_type) ==
    IF client = NoClient
    THEN [x EXCEPT !.pc = "done", !.returned = TRUE, !.status = "error",
                   !.data = <<"Account is not online.">>]
    ELSE IF extract_type \notin Patterns
    THEN [x EXCEPT !.pc = "done", !.returned = TRUE, !.status = "error",
                   !.client = client, !.data = <<"Invalid extraction type.">>]
    ELSE [x EXCEPT !.pc = "iter_messages", !.client = client, !.message = 1,
                   !.trace = Append(@, Call("iter_messages", 0, "-"))]

\* extract_from_channel: messages are those client.iter_messages yields, at
\* most limit of them
extract_from_channel(phone, channel_link, extract_type, limit, messages) ==
    /\ extractCall.pc = "idle"
    /\ Len(messages) <= limit
    /\ extractCall' = extract_checked([extractCall EXCEPT !.extract_type = extract_type,
                                                         !.messages = messages],
                                      clients[phone], extract_type)
    /\ UNCHANGED <<joinCall, validateCall>>
    /\ query_frame

\* the dictionary returned by the except clause
extract_failed(x, e) ==
    [x EXCEPT !.pc = "done", !.returned = TRUE, !.status = "error",
              !.data = <<"An error occurred: ", e>>]

\* one step of "async for message in client.iter_messages(...)": the next
\* message arrives and the body runs, or the iteration is exhausted and the
\* sorted results are returned, or it raises; a request on a disconnected
\* client raises ConnectionError; a cancelled request raises CancelledError,
\* which the except clause does not catch
extract_from_channel_iter ==
    /\ extractCall.pc = "iter_messages"
    /\ IF extractCall.cancelled THEN extractCall' = [extractCall EXCEPT !.pc = "done"]
       ELSE IF supConn[extractCall.client]
       THEN \/ extractCall' = extract_failed(extractCall, "RPCError")
            \/ extractCall' =
                 IF extractCall.message <= Len(extractCall.messages)
                 THEN [extractCall EXCEPT
                          !.message = @ + 1,
                          !.results = results_after(extractCall.messages[extractCall.message],
                                                    extractCall.extract_type, @)]
                 ELSE [extractCall EXCEPT !.pc = "done", !.returned = TRUE,
                                          !.status = "success",
                                          !.data = sorted_list(extractCall.results)]
       ELSE extractCall' = extract_failed(extractCall, "ConnectionError")
    /\ UNCHANGED <<joinCall, validateCall>>
    /\ query_frame

\* ------------------------------------------------------------------------
\* disconnect_client
\* ------------------------------------------------------------------------
\* the awaits of the jobs and queries that are requests on a client
PendingRequests ==
    {"get_messages", "send_message", "forward_messages", "JoinChannelRequest",
     "get_entity", "iter_messages"}

\* await client.disconnect() on a connected client: the client cancels the
\* futures of the requests pending on it, among them the one a job or a
\* query is awaiting
pending_after_disconnect(j, s) ==
    IF j.client = s /\ supConn[s] /\ j.pc \in PendingRequests
    THEN [j EXCEPT !.cancelled = TRUE]
    ELSE j

\* disconnect_client: False is returned at once when the phone is not
\* registered; else its client is disconnected
disconnect_client_begin(phone) ==
    /\ startupTodo = {}
    /\ dcPc = "idle"
    /\ IF clients[phone] = NoClient
       THEN /\ dcResult' = "False"
            /\ UNCHANGED <<supConn, job, joinCall, validateCall, extractCall, dcPc,
                           dcPhone>>
       ELSE /\ supConn' = [supConn EXCEPT ![clients[phone]] = FALSE]
            /\ job' = pending_after_disconnect(job, clients[phone])
            /\ joinCall' = pending_after_disconnect(joinCall, clients[phone])
            /\ validateCall' = pending_after_disconnect(validateCall, clients[phone])
            /\ extractCall' = pending_after_disconnect(extractCall, clients[phone])
            /\ dcPc' = "del"
            /\ dcPhone' = phone
            /\ dcResult' = "none"
    /\ UNCHANGED <<clients, dbStatus, supPc, supPhone, supExit, startupTodo, obPhone,
                   cfg, snap, connCfg, out, reloaded, dbDoc, ob>>

\* the registry after "del self.clients[phone]", which raises KeyError when
\* the entry is gone
registry_after_disconnect(phone) ==
    IF clients[phone] = NoClient THEN <<"KeyError">>
    ELSE [clients EXCEPT ![phone] = NoClient]

\* del self.clients[phone]; a KeyError is caught by the except clause, which
\* returns False
disconnect_client_delete ==
    /\ dcPc = "del"
    /\ IF registry_after_disconnect(dcPhone) = <<"KeyError">>
       THEN /\ dcPc' = "idle"
            /\ dcPhone' = NoPhone
            /\ dcResult' = "False"
            /\ UNCHANGED clients
       ELSE /\ clients' = registry_after_disconnect(dcPhone)
            /\ dcPc' = "write"
            /\ UNCHANGED <<dcPhone, dcResult>>
    /\ UNCHANGED <<dbStatus, supPc, supPhone, supConn, supExit, startupTodo, obPhone,
                   cfg, snap, connCfg, out, reloaded, dbDoc, ob, job, joinCall,
                   validateCall, extractCall>>

\* _update_account_status(phone, "Offline"), and True is returned
disconnect_client_write ==
    /\ dcPc = "write"
    /\ update_status(dcPhone, "Offline")
    /\ dcPc' = "idle"
    /\ dcPhone' = NoPhone
    /\ dcResult' = "True"
    /\ UNCHANGED <<clients, supPc, supPhone, supConn, supExit, startupTodo, obPhone,
                   cfg, snap, connCfg, out, reloaded, dbDoc, ob, job, joinCall,
                   validateCall, extractCall>>

\* ------------------------------------------------------------------------
\* Inbound events, and the operations on the stored configuration
\* ------------------------------------------------------------------------
\* one update reaches the connected client of task s; fails are the rules
\* (by position) whose delivery raises
new_message(s, event, fails) ==
    /\ supConn[s]
    /\ out' = [sup |-> s, event |-> event,
               fwd |-> Forwarded(snap[s], event, fails),
               replies |-> Replied(snap[s], event),
               changed |-> [rules |-> cfg[supPhone[s]].rules # connCfg[s].rules,
                            auto |-> cfg[supPhone[s]].auto # connCfg[s].auto,
                            smart |-> cfg[supPhone[s]].smart # connCfg[s].smart],
               reloaded |-> (supPhone[s] \in reloaded)]
    /\ UNCHANGED <<lifeVars, cfg, snap, connCfg, reloaded>>

\* main.py add_forwarding_rule: insert_one with status "active"
add_forwarding_rule(phone, source_chat, destination_chat) ==
    /\ Len(cfg[phone].rules) < MaxRules
    /\ cfg' = [cfg EXCEPT ![phone].rules =
                   Append(@, [source_chat |-> source_chat,
                              destination_chat |-> destination_chat,
                              status |-> "active"])]
    /\ reloaded' = reloaded \ {phone}
    /\ UNCHANGED <<lifeVars, snap, connCfg, out>>

\* main.py delete_forwarding_rule: delete_one by _id
delete_forwarding_rule(phone, i) ==
    /\ i \in 1..Len(cfg[phone].rules)
    /\ cfg' = [cfg EXCEPT ![phone].rules =
                   SubSeq(@, 1, i - 1) \o SubSeq(@, i + 1, Len(@))]
    /\ reloaded' = reloaded \ {phone}
    /\ UNCHANGED <<lifeVars, snap, connCfg, out>>

\* main.py set_auto_reply_settings: replace_one with upsert
set_auto_reply_settings(phone, message, keywords) ==
    /\ cfg' = [cfg EXCEPT ![phone].auto =
                   [present |-> TRUE, message |-> message, keywords |-> keywords]]
    /\ reloaded' = reloaded \ {phone}
    /\ UNCHANGED <<lifeVars, snap, connCfg, out>>

\* main.py set_smart_selling_settings: replace_one with upsert
set_smart_selling_settings(phone, enabled, message, must_contain, maybe_contain) ==
    /\ cfg' = [cfg EXCEPT ![phone].smart =
                   [present |-> TRUE, enabled |-> enabled, message |-> message,
                    must_contain |-> must_contain, maybe_contain |-> maybe_contain]]
    /\ reloaded' = reloaded \ {phone}
    /\ UNCHANGED <<lifeVars, snap, connCfg, out>>

\* reload_rules_for_client reading the stored rules into the running client
closure_after_hot_reload(phone) ==
    with_rules(snap[clients[phone]], cfg[phone].rules)

\* the closure of the registered client after reload_rules_for_client: the
\* method only logs that the change takes effect on the next restart
closure_after_reload(phone) == snap[clients[phone]]

\* reload_rules_for_client: False when the phone is not registered
reload_rules_for_client(phone) ==
    /\ IF clients[phone] = NoClient
       THEN UNCHANGED <<snap, reloaded>>
       ELSE /\ snap' = [snap EXCEPT ![clients[phone]] = closure_after_reload(phone)]
            /\ reloaded' = reloaded \cup {phone}
    /\ UNCHANGED <<lifeVars, cfg, connCfg, out>>

\* ------------------------------------------------------------------------
\* The lifecycle of sessions: startup, logins, supervisors, disconnects
\* ------------------------------------------------------------------------
Statuses == {"Offline", "Connecting", "Online", "Error"}

Init ==
    /\ clients = [p \in Phones |-> NoClient]
    /\ dbStatus \in [Phones -> {"NoRecord", "Offline", "Online", "Error"}]
    /\ supPc = [s \in Sups |-> "idle"]
    /\ supPhone = [s \in Sups |-> NoPhone]
    /\ supConn = [s \in Sups |-> FALSE]
    /\ supExit = [s \in Sups |-> "none"]
    /\ startupTodo = {p \in Phones : dbStatus[p] = "Online"}
    /\ obPhone = NoPhone
    /\ dcPc = "idle"
    /\ dcPhone = NoPhone
    /\ cfg = [p \in Phones |-> EmptyCfg]
    /\ snap = [s \in Sups |-> EmptySnap]
    /\ connCfg = [s \in Sups |-> EmptyCfg]
    /\ out = NoOut
    /\ reloaded = {}
    /\ dbDoc = [p \in Phones |-> IF dbStatus[p] = "NoRecord" THEN NoDoc ELSE StoredDoc]
    /\ ob = NoOb
    /\ job = NoJob
    /\ joinCall = NoJoin
    /\ validateCall = NoValidate
    /\ extractCall = NoExtract
    /\ dcResult = "none"

RunClient(s) ==
    \/ run_client_start_ok(s)
    \/ run_client_start_fail(s)
    \/ run_client_persist_online(s)
    \/ run_client_load_rules(s)
    \/ run_client_load_auto(s)
    \/ run_client_load_smart(s)
    \/ run_client_db_error(s)
    \/ connection_lost(s)
    \/ run_client_disconnected(s)
    \/ run_client_run_error(s)
    \/ run_client_except(s)
    \/ run_client_finally_del(s)
    \/ run_client_finally_write(s)

Next ==
    \/ \E p \in Phones : startup(p)
    \/ \E s \in Sups : RunClient(s)
    \/ \E p \in Phones : interactive_session_upsert(p)
    \/ interactive_session_spawn
    \/ \E p \in Phones : disconnect_client_begin(p)
    \/ disconnect_client_delete
    \/ disconnect_client_write

Spec == Init /\ [][Next]_vars

\* ------------------------------------------------------------------------
\* Claims about the lifecycle
\* ------------------------------------------------------------------------
LiveConnections(p) == {s \in Sups : supPhone[s] = p /\ supConn[s]}

\* C1: at no time are two connections live for the same account identifier
AtMostOneLiveConnection ==
    \A p \in Phones : Cardinality(LiveConnections(p)) <= 1

\* the task s ends in this step
Exits(s) == supPc[s] # "done" /\ supPc'[s] = "done"

\* C2: when a supervisor that failed to connect, or hit an unrecoverable
\* error, ends, the persisted status of its account is Error and the account
\* is not in the registry
ErrorPersistedAtFailedExit ==
    [][\A s \in Sups :
          (Exits(s) /\ supExit[s] \in {"connect_failed", "error"})
              => (dbStatus'[supPhone[s]] = "Error" /\ clients'[supPhone[s]] = NoClient)]_vars

LifecycleEdges ==
    {<<"Offline", "Connecting">>, <<"Connecting", "Online">>,
     <<"Online", "Error">>, <<"Online", "Offline">>}

\* C3: every change of the persisted status of an account is an edge of
\* Offline -> Connecting -> Online -> {Error, Offline}
StatusFollowsLifecycle ==
    [][\A p \in Phones :
          (dbStatus[p] \in Statuses /\ dbStatus'[p] # dbStatus[p])
              => <<dbStatus[p], dbStatus'[p]>> \in LifecycleEdges]_vars

\* C4: when a supervisor whose run_until_disconnected returned without error
\* ends, its account is not in the registry and its persisted status is Offline
OfflineAtOrdinaryExit ==
    [][\A s \in Sups :
          (Exits(s) /\ supExit[s] = "disconnected")
              => (clients'[supPhone[s]] = NoClient /\ dbStatus'[supPhone[s]] = "Offline")]_vars

\* ------------------------------------------------------------------------
\* One connected session and its handlers, over bounded inputs
\* ------------------------------------------------------------------------
RECURSIVE SeqsUpTo(_, _)
SeqsUpTo(S, n) ==
    IF n = 0 THEN {<<>>}
    ELSE LET shorter == SeqsUpTo(S, n - 1)
         IN  shorter \cup {Append(q, x) : q \in {r \in shorter : Len(r) = n - 1}, x \in S}

\* the state once the task of account p1, launched by startup, has connected,
\* registered its client and persisted Online, and is suspended at pc0
Connected(pc0, c) ==
    /\ clients = [p \in Phones |-> IF p = "p1" THEN 1 ELSE NoClient]
    /\ dbStatus = [p \in Phones |-> IF p = "p1" THEN "Online" ELSE "NoRecord"]
    /\ supPc = [s \in Sups |-> IF s = 1 THEN pc0 ELSE "idle"]
    /\ supPhone = [s \in Sups |-> IF s = 1 THEN "p1" ELSE NoPhone]
    /\ supConn = [s \in Sups |-> s = 1]
    /\ supExit = [s \in Sups |-> "none"]
    /\ startupTodo = {}
    /\ obPhone = NoPhone
    /\ dcPc = "idle"
    /\ dcPhone = NoPhone
    /\ cfg = [p \in Phones |-> IF p = "p1" THEN c ELSE EmptyCfg]
    /\ snap = [s \in Sups |-> EmptySnap]
    /\ connCfg = [s \in Sups |-> EmptyCfg]
    /\ out = NoOut
    /\ reloaded = {}
    /\ dbDoc = [p \in Phones |-> IF dbStatus[p] = "NoRecord" THEN NoDoc ELSE StoredDoc]
    /\ ob = NoOb
    /\ job = NoJob
    /\ joinCall = NoJoin
    /\ validateCall = NoValidate
    /\ extractCall = NoExtract
    /\ dcResult = "none"

\* chat identifiers as stored by add_forwarding_rule (strings)
SourceChats == {<<"5">>, <<"-", "5">>, <<"x">>, <<"-", "-", "5">>}
DestinationChats == {<<"7">>, <<"8">>, <<"x">>}
RuleDocs ==
    [source_chat : SourceChats, destination_chat : DestinationChats,
     status : {"active", "inactive"}]
ForwardEvents ==
    [chat_id : {5, -5, 7}, is_private : {FALSE}, out : {FALSE}, raw_text : {<<>>}]

ForwardInit ==
    \E rules \in SeqsUpTo(RuleDocs, MaxRules) :
        Connected("loadRules", [EmptyCfg EXCEPT !.rules = rules])

ForwardNext ==
    \/ run_client_load_rules(1)
    \/ run_client_load_auto(1)
    \/ run_client_load_smart(1)
    \/ run_client_except(1)
    \/ run_client_finally_del(1)
    \/ run_client_finally_write(1)
    \/ /\ supPc[1] = "run"
       /\ out = NoOut
       /\ \E event \in ForwardEvents, fails \in SUBSET (1..Len(snap[1].rules)) :
              new_message(1, event, fails)

SpecForward == ForwardInit /\ [][ForwardNext]_vars

\* ------------------------------------------------------------------------
\* Claims about rule-based forwarding
\* ------------------------------------------------------------------------
IsActive(doc) == doc.status \in {"active", "Active"}

\* the rule set R of the session that handled the last event
LoadedRules == SelectSeq(connCfg[out.sup].rules, IsActive)

\* the rule's source is the chat; the rule's destination is the chat d
SourceIs(doc, chat_id) == IntOk(doc.source_chat) /\ IntVal(doc.source_chat) = chat_id
DestinationIs(doc, d) == IntOk(doc.destination_chat) /\ IntVal(doc.destination_chat) = d

SeqRange(q) == {q[i] : i \in 1..Len(q)}

\* the destinations event.forward_to was called with for the last event
ForwardedTo ==
    {IntVal(LoadedRules[i].destination_chat) :
        i \in SeqRange(out.fwd.tried) \ SeqRange(out.fwd.invalid)}

Destinations == {IntVal(d) : d \in {c \in DestinationChats : IntOk(c)}}

\* C5: an event is forwarded to destination D if and only if some active rule
\* of the session has the event's chat as source and D as destination
ForwardedIffActiveRuleMatches ==
    out.sup # NoClient =>
        \A d \in Destinations :
            d \in ForwardedTo <=>
                \E i \in 1..Len(LoadedRules) :
                    /\ SourceIs(LoadedRules[i], out.event.chat_id)
                    /\ DestinationIs(LoadedRules[i], d)

\* the rules (by position) on which a malformed destination or a delivery
\* failure was caught while the last event was handled
CaughtAt == SeqRange(out.fwd.invalid) \cup SeqRange(out.fwd.failed)

\* C6: after a malformed destination or a delivery failure on one matching
\* rule, every remaining matching rule is still evaluated, and the session
\* stays connected and registered
FailureLeavesRemainingRules ==
    (out.sup # NoClient /\ CaughtAt # {}) =>
        /\ \A i \in CaughtAt : \A j \in (i + 1)..Len(LoadedRules) :
               SourceIs(LoadedRules[j], out.event.chat_id)
                   => j \in SeqRange(out.fwd.tried)
        /\ supConn[out.sup]
        /\ clients[supPhone[out.sup]] = out.sup

\* ------------------------------------------------------------------------
\* The auto-reply handler over bounded settings and messages
\* ------------------------------------------------------------------------
KeywordChars == {"a", "B", ",", " "}
TextChars == {"a", "B"}
Texts == StrsUpTo(TextChars, MaxTextLen)
MessageEvents ==
    [chat_id : {5}, is_private : BOOLEAN, out : BOOLEAN, raw_text : Texts]

AutoDocs ==
    {NoAuto} \cup
    [present : {TRUE}, message : {<<>>, <<"h", "i">>},
     keywords : {None} \cup StrsUpTo(KeywordChars, MaxKwLen)]

AutoReplyInit ==
    \E settings \in AutoDocs :
        Connected("loadAuto", [EmptyCfg EXCEPT !.auto = settings])

AutoReplyNext ==
    \/ run_client_load_auto(1)
    \/ run_client_load_smart(1)
    \/ /\ supPc[1] = "run"
       /\ out = NoOut
       /\ \E event \in MessageEvents : new_message(1, event, {})

SpecAutoReply == AutoReplyInit /\ [][AutoReplyNext]_vars

\* ------------------------------------------------------------------------
\* Claims about auto-reply
\* ------------------------------------------------------------------------
\* field[i..j] is one of the comma-separated items of the field
IsItem(field, i, j) ==
    /\ 1 <= i /\ i <= j + 1 /\ j <= Len(field)
    /\ \A k \in i..j : field[k] # ","
    /\ (i = 1 \/ field[i - 1] = ",")
    /\ (j = Len(field) \/ field[j + 1] = ",")

\* the keyword list of a field: its items, trimmed and lower-cased, blanks dropped
KeywordList(field) ==
    IF field = None THEN {}
    ELSE {Lower(Strip(SubSeq(field, i, j))) :
            <<i, j>> \in {ij \in (1..(Len(field) + 1)) \X (0..Len(field)) :
                            /\ IsItem(field, ij[1], ij[2])
                            /\ Strip(SubSeq(field, ij[1], ij[2])) # <<>>}}

\* the replies of the last event that auto_reply_handler sent
AutoReplies == SelectSeq(out.replies, LAMBDA r : r.by = "auto")

\* the auto-reply settings of the session that handled the last event
AutoSettings == connCfg[out.sup].auto

PrivateInbound == out.event.is_private /\ ~out.event.out

\* C7: with a non-empty message and a non-empty keyword list, a private
\* inbound message gets an auto-reply if and only if its lower-cased text
\* contains one of the keywords; group and outgoing messages get none
AutoReplyIffKeyword ==
    (/\ out.sup # NoClient
     /\ AutoSettings.present
     /\ AutoSettings.message # <<>>
     /\ KeywordList(AutoSettings.keywords) # {})
        => /\ PrivateInbound =>
                (AutoReplies # <<>> <=>
                    \E k \in KeywordList(AutoSettings.keywords) :
                        Contains(k, Lower(out.event.raw_text)))
           /\ ~PrivateInbound => AutoReplies = <<>>

AutoReplyIffKeywordWitness ==
    /\ out.sup # NoClient
    /\ AutoSettings.present
    /\ AutoSettings.message # <<>>
    /\ Cardinality(KeywordList(AutoSettings.keywords)) = 2
    /\ PrivateInbound
    /\ AutoReplies # <<>>
    /\ out.event.raw_text # Lower(out.event.raw_text)
    /\ \E k \in KeywordList(AutoSettings.keywords) : ~Contains(k, Lower(out.event.raw_text))

\* C8: with a non-empty message and an empty keyword list (absent, empty, or
\* only blanks and commas), every private inbound message gets exactly one
\* reply, with the configured message
AutoReplyToAllWithoutKeywords ==
    (/\ out.sup # NoClient
     /\ AutoSettings.present
     /\ AutoSettings.message # <<>>
     /\ KeywordList(AutoSettings.keywords) = {}
     /\ PrivateInbound)
        => AutoReplies = <<[by |-> "auto", message |-> AutoSettings.message]>>

AutoReplyToAllWithoutKeywordsWitness ==
    /\ out.sup # NoClient
    /\ AutoSettings.present
    /\ AutoSettings.message # <<>>
    /\ AutoSettings.keywords \notin {None, <<>>}
    /\ KeywordList(AutoSettings.keywords) = {}
    /\ PrivateInbound
    /\ out.event.raw_text # <<>>
    /\ Len(AutoReplies) = 1

\* ------------------------------------------------------------------------
\* The smart-selling handler over bounded settings and messages
\* ------------------------------------------------------------------------
SmartChars == {"a", "B", ","}
SmartFields == {None} \cup StrsUpTo(SmartChars, MaxSmartLen)

\* settings that register the handler, with every pair of keyword fields;
\* settings that are absent, disabled or without message
SmartDocs ==
    [present : {TRUE}, enabled : {TRUE}, message : {<<"o", "k">>},
     must_contain : SmartFields, maybe_contain : SmartFields]
    \cup {NoSmart}
    \cup {d \in [present : {TRUE}, enabled : BOOLEAN, message : {<<>>, <<"o", "k">>},
                 must_contain : {None, <<"a">>}, maybe_contain : {None, <<"a">>, <<"B">>}] :
             ~(d.enabled /\ d.message # <<>>)}

SmartInit ==
    \E smart_settings \in SmartDocs :
        Connected("loadSmart", [EmptyCfg EXCEPT !.smart = smart_settings])

SmartNext ==
    \/ run_client_load_smart(1)
    \/ /\ supPc[1] = "run"
       /\ out = NoOut
       /\ \E event \in MessageEvents : new_message(1, event, {})

SpecSmart == SmartInit /\ [][SmartNext]_vars

\* ------------------------------------------------------------------------
\* Claims about smart selling
\* ------------------------------------------------------------------------
SmartReplies == SelectSeq(out.replies, LAMBDA r : r.by = "smart")
SmartSettings == connCfg[out.sup].smart
MustList == KeywordList(SmartSettings.must_contain)
MaybeList == KeywordList(SmartSettings.maybe_contain)
AllMustPresent == \A k \in MustList : Contains(k, Lower(out.event.raw_text))
SomeMaybePresent == \E k \in MaybeList : Contains(k, Lower(out.event.raw_text))

\* the row of the truth table for the emptiness of the two lists
TruthTable ==
    CASE MustList # {} /\ MaybeList # {} -> AllMustPresent /\ SomeMaybePresent
      [] MustList # {} /\ MaybeList = {} -> AllMustPresent
      [] MustList = {} /\ MaybeList # {} -> SomeMaybePresent
      [] OTHER -> FALSE

SessionEvents ==
    [chat_id : {5}, is_private : {TRUE}, out : {FALSE}, raw_text : {<<"a">>}]

SessionInit ==
    /\ clients = [p \in Phones |-> NoClient]
    /\ dbStatus = [p \in Phones |-> IF p = "p1" THEN "Online" ELSE "NoRecord"]
    /\ supPc = [s \in Sups |-> "idle"]
    /\ supPhone = [s \in Sups |-> NoPhone]
    /\ supConn = [s \in Sups |-> FALSE]
    /\ supExit = [s \in Sups |-> "none"]
    /\ startupTodo = {"p1"}
    /\ obPhone = NoPhone
    /\ dcPc = "idle"
    /\ dcPhone = NoPhone
    /\ cfg = [p \in Phones |-> EmptyCfg]
    /\ snap = [s \in Sups |-> EmptySnap]
    /\ connCfg = [s \in Sups |-> EmptyCfg]
    /\ out = NoOut
    /\ reloaded = {}
    /\ dbDoc = [p \in Phones |-> IF dbStatus[p] = "NoRecord" THEN NoDoc ELSE StoredDoc]
    /\ ob = NoOb
    /\ job = NoJob
    /\ joinCall = NoJoin
    /\ validateCall = NoValidate
    /\ extractCall = NoExtract
    /\ dcResult = "none"

SessionNext ==
    \/ startup("p1")
    \/ \E s \in Sups :
          \/ run_client_start_ok(s)
          \/ run_client_persist_online(s)
          \/ run_client_load_rules(s)
          \/ run_client_load_auto(s)
          \/ run_client_load_smart(s)
          \/ connection_lost(s)
          \/ run_client_disconnected(s)
          \/ run_client_finally_write(s)
          \/ /\ supPc[s] = "run"
             /\ \E event \in SessionEvents, fails \in SUBSET (1..Len(snap[s].rules)) :
                    new_message(s, event, fails)
    \/ cfg["p1"].rules = <<>> /\ add_forwarding_rule("p1", <<"5">>, <<"7">>)
    \/ \E i \in 1..MaxRules : delete_forwarding_rule("p1", i)
    \/ \E keywords \in {None, <<"a">>} :
          set_auto_reply_settings("p1", <<"h", "i">>, keywords)
    \/ \E enabled \in BOOLEAN :
          set_smart_selling_settings("p1", enabled, <<"o", "k">>, <<"a">>, None)
    \/ reload_rules_for_client("p1")

SpecSession == SessionInit /\ [][SessionNext]_vars

\* ------------------------------------------------------------------------
\* Claims about the configuration snapshot
\* ------------------------------------------------------------------------
\* the closure built from the documents a task read while it connected
SnapshotOf(c) == with_smart(with_auto(with_rules(EmptySnap, c.rules), c.auto), c.smart)

LoginStatus0 == [p \in Phones |-> IF p = "p1" THEN "Offline" ELSE "NoRecord"]
LoginDoc0 == [p \in Phones |-> IF p = "p1" THEN StoredDoc ELSE NoDoc]

LoginInit ==
    /\ clients = [p \in Phones |-> NoClient]
    /\ dbStatus = LoginStatus0
    /\ supPc = [s \in Sups |-> "idle"]
    /\ supPhone = [s \in Sups |-> NoPhone]
    /\ supConn = [s \in Sups |-> FALSE]
    /\ supExit = [s \in Sups |-> "none"]
    /\ startupTodo = {}
    /\ obPhone = NoPhone
    /\ dcPc = "idle"
    /\ dcPhone = NoPhone
    /\ cfg = [p \in Phones |-> EmptyCfg]
    /\ snap = [s \in Sups |-> EmptySnap]
    /\ connCfg = [s \in Sups |-> EmptyCfg]
    /\ out = NoOut
    /\ reloaded = {}
    /\ dbDoc = LoginDoc0
    /\ ob = NoOb
    /\ job = NoJob
    /\ joinCall = NoJoin
    /\ validateCall = NoValidate
    /\ extractCall = NoExtract
    /\ dcResult = "none"

LoginNext ==
    \/ \E owner \in Owners : start_interactive_session(owner)
    \/ websocket_closed
    \/ login_connect
    \/ login_prompt
    \/ login_receive_phone
    \/ login_receive
    \/ login_send_code_request
    \/ login_sign_in
    \/ login_sign_in_password
    \/ login_get_me
    \/ login_upsert
    \/ login_spawn
    \/ login_success
    \/ login_except
    \/ login_finally
    \/ \E s \in Sups : RunClient(s)

SpecLogin == LoginInit /\ [][LoginNext]_vars

\* C11: when start_interactive_session has returned, by whatever path, the
\* client it opened is not connected
LoginClientTornDown ==
    ob.pc = "done" => ~ob.connected

\* the flow has returned after sending success: the client it used to log in
\* is down, the session goes on in the task it created
LoginClientTornDownWitness ==
    /\ ob.pc = "done"
    /\ ob.failed = "none"
    /\ "success" \in SeqRange(ob.trace)
    /\ ~ob.connected

\* the steps at which the service refuses the login
AuthSteps == {"send_code_request", "sign_in", "sign_in_password"}

\* C12: after a failure of send_code_request or of either sign_in, the error
\* message is sent over the websocket (if the peer is still there), no account
\* document is created or modified and no _run_client task is created
AuthFailureOnlyReported ==
    (ob.pc = "done" /\ ob.failed \in AuthSteps) =>
        /\ ob.channel = "open" =>
               (ob.trace # <<>> /\ ob.trace[Len(ob.trace)] = "error")
        /\ dbStatus = LoginStatus0
        /\ dbDoc = LoginDoc0
        /\ ob.task = <<>>
        /\ \A s \in Sups : supPc[s] = "idle"

AuthFailureOnlyReportedWitness ==
    /\ ob.pc = "done"
    /\ ob.failed = "sign_in_password"
    /\ ob.channel = "open"
    /\ ob.trace[Len(ob.trace)] = "error"

\* the order of the messages of one flow, as an automaton over the exchange
ProtocolStep(q, m) ==
    CASE q = "AwaitPhone" /\ m = "prompt_phone" -> "PhonePrompted"
      [] q = "PhonePrompted" /\ m = "data" -> "GotPhone"
      [] q = "GotPhone" /\ m = "prompt_code" -> "CodePrompted"
      [] q = "CodePrompted" /\ m = "data" -> "GotCode"
      [] q = "GotCode" /\ m = "prompt_password" -> "PasswordPrompted"
      [] q = "PasswordPrompted" /\ m = "data" -> "GotPassword"
      [] q \in {"GotCode", "GotPassword"} /\ m = "success" -> "Terminated"
      [] q \in {"AwaitPhone", "GotPhone", "GotCode", "GotPassword"} /\ m = "error"
            -> "Terminated"
      [] OTHER -> "OutOfOrder"

RECURSIVE ProtocolRun(_, _)
ProtocolRun(trace, n) ==
    IF n = 0 THEN "AwaitPhone" ELSE ProtocolStep(ProtocolRun(trace, n - 1), trace[n])

\* C13: the exchange follows the order prompt(phone), data, prompt(code), data,
\* then prompt(password), data only if sign_in reported that a password is
\* needed, then one terminal message, success or error, and nothing after it;
\* a flow that has returned with the peer still there has sent its terminal
\* message
ExchangeFollowsProtocol ==
    /\ ProtocolRun(ob.trace, Len(ob.trace)) # "OutOfOrder"
    /\ "prompt_password" \in SeqRange(ob.trace) => ob.password_needed
    /\ (ob.pc = "done" /\ ob.channel = "open") =>
           ProtocolRun(ob.trace, Len(ob.trace)) = "Terminated"

ExchangeFollowsProtocolWitness ==
    /\ ob.pc = "done"
    /\ ob.trace = <<"prompt_phone", "data", "prompt_code", "data",
                    "prompt_password", "data", "success">>

\* C14: the document is upserted under the identifier the service resolved,
\* with status Online and the owner, before the task is created for that
\* identifier and session string, and success is sent only after both
SuccessAfterUpsertAndSpawn ==
    LET key == ob.correct_phone_number
        doc == [owner |-> ob.owner, session_string |-> ob.session_string]
    IN  /\ ob.pc = "spawn" =>
               /\ dbStatus[key] = "Online"
               /\ dbDoc[key] = doc
               /\ \A q \in Phones \ {key} :
                      dbStatus[q] = LoginStatus0[q] /\ dbDoc[q] = LoginDoc0[q]
        /\ ob.task # <<>> =>
               /\ dbDoc[key] = doc
               /\ ob.task = <<key, ob.session_string>>
               /\ \E s \in Sups : supPhone[s] = key /\ supPc[s] # "idle"
        /\ "success" \in SeqRange(ob.trace) => ob.task # <<>>

SuccessAfterUpsertAndSpawnWitness ==
    /\ "success" \in SeqRange(ob.trace)
    /\ ob.phone_input # ob.correct_phone_number
    /\ dbDoc[ob.correct_phone_number].owner = ob.owner
    /\ \E s \in Sups : supPhone[s] = ob.correct_phone_number

\* ------------------------------------------------------------------------
\* One forwarding job of a connected account, over bounded inputs
\* ------------------------------------------------------------------------
MaxLinkLen == 3
MaxTargets == 2

LinkChars == {"c", "/", "5", "x"}
MessageLinks == StrsUpTo(LinkChars, MaxLinkLen)
Targets == {"t1", "t2"}
Delays == {1}
CycleDelays == {2}

JobInit == Connected("run", EmptyCfg)

TargetLists == SeqsUpTo(Targets, MaxTargets)

JobNext ==
    \/ /\ job.pc = "idle"
       /\ job.result = "none"
       /\ \E phone \in Phones, message_link \in MessageLinks, delay \in Delays,
             cycle_delay \in CycleDelays, targets \in TargetLists,
             hide_sender \in BOOLEAN :
              start_forwarding_job(phone, message_link, delay, cycle_delay, targets,
                                   hide_sender)
    \/ forwarding_job_runner_parse
    \/ forwarding_job_runner_sleep
    \/ forwarding_job_runner_next_target
    \/ forwarding_job_runner_get_messages
    \/ forwarding_job_runner_delivery
    \/ forwarding_job_runner_cycle_sleep

SpecJob == JobInit /\ [][JobNext]_vars

\* the reference has fewer than two segments, or its last segment is not an
\* integer
Unparsable(message_link) ==
    LET link == RStrip(message_link, {"/"})
        slashes == {i \in 1..Len(link) : link[i] = "/"}
        last == CHOOSE i \in slashes : \A k \in slashes : k <= i
    IN  slashes = {} \/ ~IntOk(SubSeq(link, last + 1, Len(link)))

Requests == {"forward_messages", "get_messages", "send_message"}
Attempts == {"forward_messages", "get_messages"}
Outcomes == {"log_success", "log_failed"}

\* C15: a job whose reference does not parse makes no request and no sleep,
\* and logs an error
UnparsableLinkDeliversNothing ==
    (job.pc = "done" /\ Unparsable(job.message_link)) =>
        job.trace = <<Call("log_error", 0, "-")>>

UnparsableLinkDeliversNothingWitness ==
    /\ job.pc = "done"
    /\ job.message_link = <<"c", "/", "x">>
    /\ job.targets # <<>>
    /\ job.trace = <<Call("log_error", 0, "-")>>

\* C16: start_forwarding_job does not return the accepted result for a
\* reference that does not parse
UnparsableLinkRejectedAtStart ==
    job.result = "success" => ~Unparsable(job.message_link)

\* C17: a job whose reference parses ends only by running to completion,
\* having attempted every target of the list, whichever deliveries failed
FailedTargetDoesNotAbort ==
    (job.pc = "done" /\ ~Unparsable(job.message_link)) =>
        /\ \A i \in 1..Len(job.targets) :
               \E k \in 1..Len(job.trace) :
                   job.trace[k].op \in Attempts /\ job.trace[k].n = i
        /\ job.trace[Len(job.trace)] = Call("log_completed", 0, "-")

FailedTargetDoesNotAbortWitness ==
    /\ job.pc = "done"
    /\ Len(job.targets) = 2
    /\ Call("log_failed", 1, job.targets[1]) \in SeqRange(job.trace)
    /\ Call("log_success", 2, job.targets[2]) \in SeqRange(job.trace)

\* C18: every attempt after the first is directly preceded by a sleep of
\* cycle_delay, whether the target before it succeeded or failed
CycleDelayAfterEveryTarget ==
    \A k \in 2..Len(job.trace) :
        (job.trace[k].op \in Attempts /\ job.trace[k].n > 1) =>
            job.trace[k - 1] = Call("sleep", job.cycle_delay, "-")

\* the first requests made for the targets, in the order they were made
AttemptsMade == SelectSeq(job.trace, LAMBDA e : e.op \in Attempts)

\* C19: no request is made before the sleep of delay; the targets are
\* attempted in the order of the list, one at a time and once each, by
\* forward_messages when hide_sender is false and by get_messages followed by
\* send_message when it is true
TargetsInOrderAfterDelay ==
    /\ \A k \in 1..Len(job.trace) :
           job.trace[k].op \in Requests =>
               \E j \in 1..(k - 1) : job.trace[j] = Call("sleep", job.delay, "-")
    /\ \A m \in 1..Len(AttemptsMade) :
           AttemptsMade[m] =
               IF job.hide_sender THEN Call("get_messages", m, "-")
               ELSE Call("forward_messages", m, job.targets[m])
    /\ \A k \in 1..Len(job.trace) :
           /\ (job.trace[k].op \in Attempts /\ job.trace[k].n > 1) =>
                  \E j \in 1..(k - 1) : /\ job.trace[j].op \in Outcomes
                                        /\ job.trace[j].n = job.trace[k].n - 1
           /\ job.trace[k].op = "send_message" =>
                  /\ job.hide_sender
                  /\ job.trace[k].to = job.targets[job.trace[k].n]
                  /\ job.trace[k - 1] = Call("get_messages", job.trace[k].n, "-")
    /\ (job.pc = "done" /\ ~Unparsable(job.message_link)) =>
           Len(AttemptsMade) = Len(job.targets)

TargetsInOrderAfterDelayWitness ==
    /\ job.pc = "done"
    /\ job.hide_sender
    /\ job.targets = <<"t2", "t1">>
    /\ Call("send_message", 1, "t2") \in SeqRange(job.trace)
    /\ Call("send_message", 2, "t1") \in SeqRange(job.trace)

\* ------------------------------------------------------------------------
\* A forwarding job while its session is disconnected
\* ------------------------------------------------------------------------
JobDisconnectInit == Connected("run", EmptyCfg)

JobDisconnectNext ==
    \/ /\ job.pc = "idle"
       /\ \E targets \in TargetLists, hide_sender \in BOOLEAN :
              start_forwarding_job("p1", <<"c", "/", "5">>, 1, 2, targets, hide_sender)
    \/ forwarding_job_runner
    \/ connection_lost(1)
    \/ disconnect_client_begin("p1")
    \/ disconnect_client_delete
    \/ disconnect_client_write
    \/ run_client_disconnected(1)
    \/ run_client_run_error(1)
    \/ run_client_except(1)
    \/ run_client_finally_del(1)
    \/ run_client_finally_write(1)

\* the runner is a task of the event loop: its sleeps end and its requests
\* return or raise
SpecJobDisconnect ==
    JobDisconnectInit /\ [][JobDisconnectNext]_vars /\ WF_vars(forwarding_job_runner)

\* C20: a job in flight when its client is disconnected (by the remote side,
\* by disconnect_client, with or without the exit of its _run_client task)
\* goes on to attempt every target and runs to completion
JobSurvivesDisconnect ==
    (job.pc \notin {"idle", "done"} /\ ~supConn[job.client]) ~>
        /\ job.pc = "done"
        /\ \A i \in 1..Len(job.targets) :
               \E k \in 1..Len(job.trace) :
                   job.trace[k].op \in Attempts /\ job.trace[k].n = i
        /\ job.trace[Len(job.trace)] = Call("log_completed", 0, "-")

\* ------------------------------------------------------------------------
\* One call of join_groups_for_account, over bounded lists of links
\* ------------------------------------------------------------------------
MaxLinks == 3

GroupLinks == {<<" ">>, <<"g">>, <<"h">>}
GroupLinkLists == SeqsUpTo(GroupLinks, MaxLinks)

JoinInit == Connected("run", EmptyCfg)

JoinNext ==
    \/ /\ joinCall.pc = "idle"
       /\ \E phone \in Phones, group_links \in GroupLinkLists :
              join_groups_for_account(phone, group_links)
    \/ join_groups_for_account_request
    \/ join_groups_for_account_sleep
    \/ connection_lost(1)

SpecJoin == JoinInit /\ [][JoinNext]_vars

\* the links of the list that are not blank, in its order
NonBlank(group_links) == SelectSeq(group_links, LAMBDA link : Strip(link) # <<>>)

\* the requests sent, the ends of the requests, and the delays of the call
JoinAttempts == SelectSeq(joinCall.trace, LAMBDA c : c.op = "JoinChannelRequest")
JoinEnds == SelectSeq(joinCall.trace, LAMBDA c : c.op \notin {"JoinChannelRequest", "sleep"})
JoinDelays == SelectSeq(joinCall.trace, LAMBDA c : c.op = "sleep")

\* C21: the call for a phone that is not registered returns one error result
\* per requested link, in the order of the list, with the reason "Account is
\* not online", and sends no request and sleeps never
NotOnlineJoinReportsEveryLink ==
    (joinCall.returned /\ joinCall.client = NoClient) =>
        /\ Len(joinCall.results) = Len(joinCall.group_links)
        /\ \A i \in 1..Len(joinCall.group_links) :
               joinCall.results[i] =
                   [link |-> joinCall.group_links[i], status |-> "error",
                    reason |-> "Account is not online"]
        /\ joinCall.trace = <<>>

NotOnlineJoinReportsEveryLinkWitness ==
    /\ joinCall.returned
    /\ joinCall.client = NoClient
    /\ joinCall.group_links = <<<<"g">>, <<" ">>, <<"h">>>>
    /\ Len(joinCall.results) = 3

\* C22: the call for a registered phone returns one result per non-blank
\* link, in the order of the list: success when the request returned,
\* skipped when it raised UserAlreadyParticipantError, error with the
\* message of the exception otherwise; every non-blank link is attempted,
\* whatever the earlier attempts ended by
JoinResultsFollowLinks ==
    (joinCall.returned /\ joinCall.client # NoClient) =>
        LET links == NonBlank(joinCall.group_links)
        IN  /\ Len(joinCall.results) = Len(links)
            /\ Len(JoinAttempts) = Len(links)
            /\ Len(JoinEnds) = Len(links)
            /\ \A i \in 1..Len(links) :
                   /\ joinCall.results[i].link = links[i]
                   /\ JoinAttempts[i].to = links[i]
                   /\ JoinEnds[i].to = links[i]
                   /\ joinCall.results[i].status =
                          IF JoinEnds[i].op = "joined" THEN "success"
                          ELSE IF JoinEnds[i].op = "UserAlreadyParticipantError"
                          THEN "skipped" ELSE "error"
                   /\ joinCall.results[i].status = "error" =>
                          joinCall.results[i].reason = JoinEnds[i].op

JoinResultsFollowLinksWitness ==
    /\ joinCall.returned
    /\ joinCall.client # NoClient
    /\ joinCall.group_links = <<<<"g">>, <<" ">>, <<"h">>>>
    /\ Len(joinCall.results) = 2
    /\ joinCall.results[1].status = "error"
    /\ joinCall.results[2].status = "skipped"

\* C23: every request that has ended, by whatever outcome, is followed by
\* the pacing delay before anything else happens, so a delay lies between
\* any two requests
PacingAfterEveryAttempt ==
    \A k \in 1..Len(joinCall.trace) :
        joinCall.trace[k].op = "JoinChannelRequest" =>
            \/ k = Len(joinCall.trace) /\ joinCall.pc = "JoinChannelRequest"
            \/ /\ k + 2 <= Len(joinCall.trace)
               /\ joinCall.trace[k + 2] =
                      Call("sleep", joinCall.trace[k].n, joinCall.trace[k].to)

PacingAfterEveryAttemptWitness ==
    /\ joinCall.returned
    /\ Len(joinCall.results) = 3
    /\ joinCall.results[1].status = "skipped"
    /\ joinCall.results[2].status = "error"
    /\ joinCall.results[3].status = "success"
    /\ Len(JoinDelays) = 3

\* C24: a batch of n attempts performs n - 1 pacing delays: none follows the
\* last attempt
NoPacingAfterLastAttempt ==
    (joinCall.returned /\ joinCall.client # NoClient /\ Len(JoinAttempts) > 0) =>
        Len(JoinDelays) = Len(JoinAttempts) - 1

\* ------------------------------------------------------------------------
\* One call of validate_telegram_link while sessions are disconnected
\* ------------------------------------------------------------------------
ValidateInit == Connected("run", EmptyCfg)

ValidateNext ==
    \/ /\ validateCall.pc = "idle"
       /\ \E link \in GroupLinks : validate_telegram_link(link)
    \/ validate_telegram_link_get_entity
    \/ connection_lost(1)
    \/ disconnect_client_begin("p1")
    \/ disconnect_client_delete
    \/ disconnect_client_write
    \/ run_client_disconnected(1)
    \/ run_client_run_error(1)
    \/ run_client_except(1)
    \/ run_client_finally_del(1)
    \/ run_client_finally_write(1)

SpecValidate == ValidateInit /\ [][ValidateNext]_vars

\* C26: a call that has ended has returned a result, which is an error with
\* no request sent when the registry was empty, and else a success
\* classification, the not-found error or an unexpected-error result, also
\* when the client it chose was disconnected during the call
ValidateNeverRaises ==
    validateCall.pc = "done" =>
        /\ validateCall.returned
        /\ validateCall.result.status \in {"success", "error"}
        /\ validateCall.client = NoClient =>
               /\ validateCall.trace = <<>>
               /\ validateCall.result.status = "error"

\* ------------------------------------------------------------------------
\* One call of extract_from_channel, over bounded channels
\* ------------------------------------------------------------------------
MaxMessages == 2

\* the messages of a channel: what findall returns for the text of each,
\* and a message with no text
ChannelMessages ==
    [text : {TRUE},
     found : {<<>>, <<<<"b">>>>, <<<<"a">>, <<"b">>>>, <<<<"b">>, <<"a">>>>,
              <<<<"a", "b">>, <<"a">>>>, <<<<"+", "5">>, <<"+", "5">>>>}]
        \cup {[text |-> FALSE, found |-> <<<<"e">>>>]}
MessageLists == SeqsUpTo(ChannelMessages, MaxMessages)
ExtractTypes == Patterns \cup {"emails"}

ExtractInit == Connected("run", EmptyCfg)

ExtractNext ==
    \/ /\ extractCall.pc = "idle"
       /\ \E phone \in Phones, extract_type \in ExtractTypes, limit \in 0..MaxMessages,
             messages \in MessageLists :
              extract_from_channel(phone, <<"g">>, extract_type, limit, messages)
    \/ extract_from_channel_iter
    \/ connection_lost(1)

SpecExtract == ExtractInit /\ [][ExtractNext]_vars

\* C27: a call with a kind that is none of usernames, links and phones
\* returns an error result and has made no request, whatever the phone, the
\* channel and the limit
UnknownKindRejectedBeforeNetwork ==
    (extractCall.pc # "idle" /\ extractCall.extract_type \notin Patterns) =>
        /\ extractCall.returned
        /\ extractCall.status = "error"
        /\ extractCall.trace = <<>>

UnknownKindRejectedBeforeNetworkWitness ==
    /\ extractCall.returned
    /\ extractCall.extract_type = "emails"
    /\ extractCall.client # NoClient
    /\ Len(extractCall.messages) = 2
    /\ extractCall.data = <<"Invalid extraction type.">>

RECURSIVE Scanned(_, _, _)
\* the results of a whole scan of messages
Scanned(messages, extract_type, results) ==
    IF messages = <<>> THEN results
    ELSE Scanned(Tail(messages), extract_type,
                 results_after(Head(messages), extract_type, results))

\* the orderings of a list of messages
Orderings(messages) ==
    {[i \in 1..Len(messages) |-> messages[f[i]]] : f \in Permutations(1..Len(messages))}

\* C28: the data of a successful extraction hold every match of the
\* scanned messages once, in ascending order, and are the same for every
\* order the messages could have been scanned in
ExtractionSortedWithoutDuplicates ==
    (extractCall.returned /\ extractCall.status = "success") =>
        LET data == extractCall.data
            matches ==
                UNION {{match_added(extractCall.extract_type, m.found[i]) :
                            i \in 1..Len(m.found)} :
                       m \in {extractCall.messages[k] :
                                  k \in {n \in 1..Len(extractCall.messages) :
                                             extractCall.messages[n].text}}}
        IN  /\ \A i \in 1..(Len(data) - 1) : StrLess(data[i], data[i + 1])
            /\ {data[i] : i \in 1..Len(data)} = matches
            /\ \A m \in Orderings(extractCall.messages) :
                   sorted_list(Scanned(m, extractCall.extract_type, {})) = data

ExtractionSortedWithoutDuplicatesWitness ==
    /\ extractCall.returned
    /\ extractCall.status = "success"
    /\ extractCall.extract_type = "usernames"
    /\ extractCall.messages =
           <<[text |-> TRUE, found |-> <<<<"b">>, <<"a">>>>],
             [text |-> TRUE, found |-> <<<<"a", "b">>, <<"a">>>>]>>
    /\ extractCall.data = <<<<"@", "a">>, <<"@", "a", "b">>, <<"@", "b">>>>

\* ------------------------------------------------------------------------
\* The jobs and queries beside the session lifecycle
\* ------------------------------------------------------------------------
QueriesInit == Connected("run", EmptyCfg)

\* no job or query has been called yet
NoneCalled ==
    /\ job.pc = "idle" /\ job.result = "none"
    /\ joinCall.pc = "idle"
    /\ validateCall.pc = "idle"
    /\ extractCall.pc = "idle"

QueriesNext ==
    \/ /\ NoneCalled
       /\ \E phone \in Phones, targets \in TargetLists, hide_sender \in BOOLEAN :
              start_forwarding_job(phone, <<"c", "/", "5">>, 1, 2, targets, hide_sender)
    \/ forwarding_job_runner
    \/ /\ NoneCalled
       /\ \E phone \in Phones, group_links \in GroupLinkLists :
              join_groups_for_account(phone, group_links)
    \/ join_groups_for_account_request
    \/ join_groups_for_account_sleep
    \/ /\ NoneCalled
       /\ \E link \in GroupLinks : validate_telegram_link(link)
    \/ validate_telegram_link_get_entity
    \/ /\ NoneCalled
       /\ \E phone \in Phones, extract_type \in ExtractTypes, messages \in MessageLists :
              extract_from_channel(phone, <<"g">>, extract_type, MaxMessages, messages)
    \/ extract_from_channel_iter
    \/ connection_lost(1)
    \/ disconnect_client_begin("p1")
    \/ disconnect_client_delete
    \/ disconnect_client_write
    \/ run_client_disconnected(1)
    \/ run_client_run_error(1)
    \/ run_client_except(1)
    \/ run_client_finally_del(1)
    \/ run_client_finally_write(1)

SpecQueries == QueriesInit /\ [][QueriesNext]_vars

\* C25: no step of join_groups_for_account, of start_forwarding_job and its
\* runner, of validate_telegram_link or of extract_from_channel adds,
\* replaces or removes a registry entry or changes the status of an account
QueriesLeaveRegistryAndStatus ==
    [][(job' # job \/ joinCall' # joinCall \/ validateCall' # validateCall
            \/ extractCall' # extractCall)
           => (clients' = clients /\ dbStatus' = dbStatus)]_vars

\* a join that failed on a registered account, its entry and status as before
QueriesLeaveRegistryAndStatusWitness ==
    /\ joinCall.returned
    /\ joinCall.client = 1
    /\ Len(joinCall.results) = 2
    /\ joinCall.results[2].status = "error"
    /\ clients["p1"] = 1
    /\ dbStatus["p1"] = "Online"

\* ------------------------------------------------------------------------
\* startup() and the tasks it creates, before any other operation
\* ------------------------------------------------------------------------
StartupInit == Init

StartupNext ==
    \/ \E p \in Phones : startup(p)
    \/ \E s \in Sups : RunClient(s)

SpecStartup == StartupInit /\ [][StartupNext]_vars

\* the _run_client tasks created for the account, ended or not
TasksOf(p) == {s \in Sups : supPhone[s] = p}

BothAutoDocs ==
    {NoAuto} \cup
    [present : {TRUE}, message : {<<"h", "i">>}, keywords : {None, <<"a">>, <<"B">>}]
BothSmartDocs ==
    {NoSmart} \cup
    [present : {TRUE}, enabled : BOOLEAN, message : {<<"o", "k">>},
     must_contain : {None, <<"a">>}, maybe_contain : {None, <<"a">>, <<"B">>}]

RepliesInit ==
    \E settings \in BothAutoDocs, smart_settings \in BothSmartDocs :
        Connected("loadAuto", [EmptyCfg EXCEPT !.auto = settings,
                                               !.smart = smart_settings])

RepliesNext ==
    \/ run_client_load_auto(1)
    \/ run_client_load_smart(1)
    \/ /\ supPc[1] = "run"
       /\ out = NoOut
       /\ \E event \in MessageEvents : new_message(1, event, {})

SpecReplies == RepliesInit /\ [][RepliesNext]_vars

\* the last event satisfies the condition of the auto-reply
AutoCondition ==
    /\ AutoSettings.present
    /\ AutoSettings.message # <<>>
    /\ \/ KeywordList(AutoSettings.keywords) = {}
       \/ \E k \in KeywordList(AutoSettings.keywords) :
              Contains(k, Lower(out.event.raw_text))

\* the last event satisfies the condition of the smart-selling reply
SmartCondition ==
    /\ SmartSettings.present
    /\ SmartSettings.enabled
    /\ SmartSettings.message # <<>>
    /\ TruthTable

\* C30: a private inbound message that satisfies the auto-reply condition
\* and the smart-selling condition gets two replies, one with each
\* configured message; and a message that satisfies one condition gets the
\* reply of that handler whether or not it satisfies the other
BothHandlersReply ==
    (out.sup # NoClient /\ PrivateInbound) =>
        /\ (AutoCondition /\ SmartCondition) =>
               out.replies = <<[by |-> "auto", message |-> AutoSettings.message],
                               [by |-> "smart", message |-> SmartSettings.message]>>
        /\ AutoCondition <=> AutoReplies # <<>>
        /\ SmartCondition <=> SmartReplies # <<>>

BothHandlersReplyWitness ==
    /\ out.sup # NoClient
    /\ PrivateInbound
    /\ AutoSettings.keywords = <<"B">>
    /\ SmartSettings.must_contain = <<"a">>
    /\ SmartSettings.maybe_contain = <<"B">>
    /\ out.event.raw_text = <<"a", "B">>
    /\ Len(out.replies) = 2

\* ------------------------------------------------------------------------
\* Claims about the registry and the stored status while sessions overlap
\* ------------------------------------------------------------------------
\* C31: while a _run_client task is connected and waiting in
\* run_until_disconnected, the registry maps its phone to its own client:
\* no other task of the same phone has replaced the entry, and none has
\* deleted it on its way out
RegistryHoldsRunningSupervisor ==
    \A s \in Sups :
        (supPc[s] = "run" /\ supConn[s]) => clients[supPhone[s]] = s

\* C33: while a phone is registered and the task whose client is registered
\* has persisted Online and is loading its handlers or waiting in
\* run_until_disconnected, the stored status of the phone is Online
OnlineWhileRegistered ==
    \A p \in Phones :
        (/\ clients[p] # NoClient
         /\ supPc[clients[p]] \in {"loadRules", "loadAuto", "loadSmart", "run"})
            => dbStatus[p] = "Online"

\* ------------------------------------------------------------------------
\* disconnect_client beside the _run_client tasks that startup created
\* ------------------------------------------------------------------------
DisconnectInit == Init

DisconnectNext ==
    \/ \E p \in Phones : startup(p)
    \/ \E s \in Sups : RunClient(s)
    \/ \E phone \in Phones : disconnect_client_begin(phone)
    \/ disconnect_client_delete
    \/ disconnect_client_write

SpecDisconnect == DisconnectInit /\ [][DisconnectNext]_vars

\* C32: a call for a registered phone returns True, and when it returns the
\* client is disconnected, the phone is not registered and its stored
\* status is Offline, however the steps of the _run_client task of the
\* phone fall between those of the call; a call for a phone that is not
\* registered returns False and leaves the registry and the statuses alone
DisconnectClientContract ==
    [][/\ (dcPc # "idle" /\ dcPc' = "idle") =>
             /\ dcResult' = "True"
             /\ clients'[dcPhone] = NoClient
             /\ dbStatus'[dcPhone] = "Offline"
             /\ \A s \in Sups : supPhone[s] = dcPhone => ~supConn'[s]
       /\ (dcPc = "idle" /\ dcPc' = "idle" /\ dcResult' # dcResult) =>
             /\ dcResult' = "False"
             /\ clients' = clients
             /\ dbStatus' = dbStatus]_vars

\* ------------------------------------------------------------------------
\* Rules whose source is not a chat identifier
\* ------------------------------------------------------------------------
\* C34: an active rule whose source is not numeric is never forwarded by,
\* and for an event in a numeric chat the delivery of every active rule
\* with that source is attempted, wherever rules with a non-numeric source
\* stand in the rule set
NonNumericSourceIsHarmless ==
    out.sup # NoClient =>
        \A i \in 1..Len(LoadedRules) :
            /\ ~IntOk(LoadedRules[i].source_chat) => i \notin SeqRange(out.fwd.tried)
            /\ SourceIs(LoadedRules[i], out.event.chat_id) => i \in SeqRange(out.fwd.tried)

\* ------------------------------------------------------------------------
\* The add-account endpoint of the served application
\* ------------------------------------------------------------------------
AddAccountInit == Init

AddAccountNext ==
    \/ \E p \in Phones : startup(p)
    \/ \E s \in Sups : RunClient(s)
    \/ /\ startupTodo = {}
       /\ websocket_add_account

SpecAddAccount == AddAccountInit /\ [][AddAccountNext]_vars

\* C35: a session opened through the endpoint whose peer is still there
\* when the endpoint has ended was sent the phone prompt as its first
\* message and a success or an error as its last
EndpointSessionPromptsAndTerminates ==
    (ob.pc = "done" /\ ob.channel = "open") =>
        /\ ob.trace # <<>>
        /\ ob.trace[1] = "prompt_phone"
        /\ ob.trace[Len(ob.trace)] \in {"success", "error"}

\* ------------------------------------------------------------------------
\* Further claims about the forwarding job
\* ------------------------------------------------------------------------
\* C36: in a job that hides the sender, the success of a target is logged
\* only after a message was sent to that target
SuccessOnlyAfterSend ==
    job.hide_sender =>
        \A k \in 1..Len(job.trace) :
            job.trace[k].op = "log_success" =>
                \E m \in 1..(k - 1) :
                    job.trace[m] = Call("send_message", job.trace[k].n, job.trace[k].to)

\* C37: the call for a phone that is not registered returns an error and
\* creates no runner, so nothing is ever requested, slept or logged for it;
\* the call for a registered phone returns the accepted result with the
\* runner created and nothing yet requested
StartReturnsBeforeDelivery ==
    /\ [][(job.result = "none" /\ job'.result # "none") =>
             /\ job'.trace = <<>>
             /\ IF clients[job'.phone] = NoClient
                THEN job'.result = "error" /\ job'.pc = "idle"
                ELSE job'.result = "success" /\ job'.pc = "parse"]_vars
    /\ [](job.result = "error" => (job.pc = "idle" /\ job.trace = <<>>))

StartReturnsBeforeDeliveryWitness ==
    /\ job.result = "error"
    /\ job.phone = "p2"
    /\ clients["p1"] # NoClient

====
